---- MODULE Spec2Model ----
(***************************************************************************)
(* A model of the lincheck crate: the linearizability checker of           *)
(* src/src/checker.rs run as a step machine over recorded executions       *)
(* (src/src/execution.rs), against the sequential specifications used by   *)
(* the crate's tests (stack, counter, two flags), and the recorder of       *)
(* src/src/recorder.rs driven by its callers, among them the scenario      *)
(* executor of src/src/scenario.rs.                                        *)
(*                                                                         *)
(* Invocation ids are positions in parallel_part; the model counts them    *)
(* from 1 (TLA+ sequences) where the source counts from 0.                 *)
(***************************************************************************)
EXTENDS Integers, Sequences, FiniteSets

VARIABLES
    SeqT,                 \* the type parameter Seq of LinearizabilityChecker
    execution,            \* the borrowed Execution
    hb,                   \* hb[a]: the ids a happens-before
    in_degree,            \* in_degree[b]: predecessors of b not yet placed
    minimal_invocations,  \* the HashSet of candidates
    linearized,           \* the stack of placed ids
    seq_spec,             \* the running sequential spec instance
    frames,               \* activations of check_parallel_part iterating `any`
    pc,                   \* where the checker is
    retval,               \* value being returned by the innermost finished call
    result,               \* value returned by check ("none" while running)
    run,                  \* which call of check on this execution (1 or 2)
    first                 \* the first call: its execution, verdict and final linearized

VARIABLES
    init_recorder,        \* the InitPartRecorder
    parallel_recorder,    \* the ParallelPartRecorder
    threads,              \* per thread: where it is and its PerThreadRecorder
    post_recorders,       \* the PostPartRecorders made so far
    returned,             \* the Executions returned by finish
    thunks,               \* for every call timestamp handed out: how its thunk went
    scn,                  \* execute_scenario_with_loom: the scenario and main's position
    harness               \* Lincheck::verify and check_scenario_with_loom

rvars == << init_recorder, parallel_recorder, threads, post_recorders,
            returned, thunks, scn, harness >>

vars == << SeqT, execution, hb, in_degree, minimal_invocations, linearized,
           seq_spec, frames, pc, retval, result, run, first, rvars >>

-----------------------------------------------------------------------------
(* Bounds of the model.                                                    *)

MaxInv == 2

Values == {1, 2}

-----------------------------------------------------------------------------
(* Generic helpers.                                                        *)

Range(s) == { s[i] : i \in 1..Len(s) }

Last(s) == s[Len(s)]

Front(s) == SubSeq(s, 1, Len(s) - 1)

RECURSIVE SetToSeq(_)
SetToSeq(S) ==
    IF S = {} THEN << >>
    ELSE LET m == CHOOSE x \in S : \A y \in S : x <= y
         IN  << m >> \o SetToSeq(S \ {m})

-----------------------------------------------------------------------------
(* Operations and return values of the sequential specifications.          *)

Op(name, arg) == [name |-> name, arg |-> arg]

Ret(name, some, val) == [name |-> name, some |-> some, val |-> val]

Push(v) == Op("Push", v)

Pop == Op("Pop", 0)

RetPush == Ret("Push", FALSE, 0)

RetPopNone == Ret("Pop", FALSE, 0)

RetPopSome(v) == Ret("Pop", TRUE, v)

Increment == Op("Increment", 0)

OldValue(n) == Ret("OldValue", TRUE, n)

WriteX == Op("WriteX", 0)

WriteY == Op("WriteY", 0)

ReadX == Op("ReadX", 0)

ReadY == Op("ReadY", 0)

RetWrite == Ret("Write", FALSE, 0)

(* Ret::Read(b), the flag carried as 1 or 0 *)
RetRead(b) == Ret("Read", TRUE, IF b THEN 1 ELSE 0)

Invocation(op, ret) == [op |-> op, ret |-> ret]

ParallelInvocation(t, c, r, op, ret) ==
    [thread_id |-> t, call_timestamp |-> c, return_timestamp |-> r,
     op |-> op, ret |-> ret]

Execution(init, par, post) ==
    [init_part |-> init, parallel_part |-> par, post_part |-> post]

(* Seq::default() / Seq::new() *)
SeqDefault(T) == [stack |-> << >>, x |-> 0, slots |-> [x |-> FALSE, y |-> FALSE]]

(* a stack that pops from the wrong end *)
StackExecFifo(s, op) ==
    IF op.name = "Push"
    THEN [state |-> [s EXCEPT !.stack = Append(s.stack, op.arg)], ret |-> RetPush]
    ELSE IF s.stack = << >>
         THEN [state |-> s, ret |-> RetPopNone]
         ELSE [state |-> [s EXCEPT !.stack = Tail(s.stack)],
               ret |-> RetPopSome(Head(s.stack))]

(* SequentialStack::exec *)
StackExec(s, op) ==
    IF op.name = "Push"
    THEN [state |-> [s EXCEPT !.stack = Append(s.stack, op.arg)], ret |-> RetPush]
    ELSE IF s.stack = << >>
         THEN [state |-> s, ret |-> RetPopNone]
         ELSE [state |-> [s EXCEPT !.stack = Front(s.stack)],
               ret |-> RetPopSome(Last(s.stack))]

(* a counter that returns the new value *)
CounterExecNewValue(s, op) ==
    [state |-> [s EXCEPT !.x = s.x + 1], ret |-> OldValue(s.x + 1)]

(* SequentialCounter::exec *)
CounterExec(s, op) ==
    [state |-> [s EXCEPT !.x = s.x + 1], ret |-> OldValue(s.x)]

(* two flags where WriteY sets the other flag *)
TwoSlotsExecWriteYSetsX(s, op) ==
    IF op.name = "WriteX"
    THEN [state |-> [s EXCEPT !.slots.x = TRUE], ret |-> RetWrite]
    ELSE IF op.name = "WriteY"
    THEN [state |-> [s EXCEPT !.slots.x = TRUE], ret |-> RetWrite]
    ELSE IF op.name = "ReadX"
    THEN [state |-> s, ret |-> RetRead(s.slots.x)]
    ELSE [state |-> s, ret |-> RetRead(s.slots.y)]

(* TwoSlotsSequential::exec *)
TwoSlotsExec(s, op) ==
    IF op.name = "WriteX"
    THEN [state |-> [s EXCEPT !.slots.x = TRUE], ret |-> RetWrite]
    ELSE IF op.name = "WriteY"
    THEN [state |-> [s EXCEPT !.slots.y = TRUE], ret |-> RetWrite]
    ELSE IF op.name = "ReadX"
    THEN [state |-> s, ret |-> RetRead(s.slots.x)]
    ELSE [state |-> s, ret |-> RetRead(s.slots.y)]

(* SequentialSpec::exec, dispatched on the type parameter *)
SeqExec(T, s, op) ==
    IF T = "SequentialStack" THEN StackExec(s, op)
    ELSE IF T = "SequentialCounter" THEN CounterExec(s, op)
    ELSE TwoSlotsExec(s, op)

-----------------------------------------------------------------------------
(* LinearizabilityChecker::check, the construction of the checker.         *)

(* the comparison with its operands exchanged *)
HappensBeforeSwapped(inv_a, inv_b) == inv_b.return_timestamp < inv_a.call_timestamp

(* a comparison of the two call timestamps *)
HappensBeforeByCall(inv_a, inv_b) == inv_a.call_timestamp < inv_b.call_timestamp

(* the test of checker.rs line 38 *)
HappensBefore(inv_a, inv_b) == inv_a.return_timestamp < inv_b.call_timestamp

(* an hb that only looks at the invocations stored after a *)
BuildHbForward(parallel_part) ==
    [ a \in 1..Len(parallel_part) |->
        SetToSeq({ b \in (a + 1)..Len(parallel_part) :
                     HappensBefore(parallel_part[a], parallel_part[b]) }) ]

(* hb_parallel: for each a the ids b pushed by the inner loop, in id order *)
BuildHb(parallel_part) ==
    [ a \in 1..Len(parallel_part) |->
        SetToSeq({ b \in 1..Len(parallel_part) :
                     HappensBefore(parallel_part[a], parallel_part[b]) }) ]

(* an in_degree that counts only the predecessors stored before b *)
BuildInDegreeForward(parallel_part, h) ==
    [ b \in 1..Len(parallel_part) |->
        Cardinality({ a \in 1..(b - 1) : b \in Range(h[a]) }) ]

(* in_degree[b]: one increment per occurrence of b in the lists of hb *)
BuildInDegree(parallel_part, h) ==
    [ b \in 1..Len(parallel_part) |->
        Cardinality({ a \in 1..Len(parallel_part) : b \in Range(h[a]) }) ]

(* a frontier that holds every id *)
BuildMinimalIgnoringDegree(deg) == DOMAIN deg

(* minimal_invocations: the ids whose in_degree is 0 *)
BuildMinimal(deg) == { inv_id \in DOMAIN deg : deg[inv_id] = 0 }

-----------------------------------------------------------------------------
(* call, undo and rebuild_seq_spec.                                        *)

(* the loop of call over hb[inv_id], from position k on *)
RECURSIVE CallLoop(_, _, _, _)
CallLoop(list, k, deg, min) ==
    IF k > Len(list) THEN [in_degree |-> deg, minimal_invocations |-> min]
    ELSE LET next_inv_id == list[k]
             deg2 == [deg EXCEPT ![next_inv_id] = @ - 1]
             min2 == IF deg2[next_inv_id] = 0 THEN min \cup {next_inv_id} ELSE min
         IN  CallLoop(list, k + 1, deg2, min2)

(* a call that leaves inv_id in minimal_invocations *)
CallKeepsCandidate(c, h, inv_id) ==
    LET l == CallLoop(h[inv_id], 1, c.in_degree, c.minimal_invocations)
    IN  [linearized |-> Append(c.linearized, inv_id),
         in_degree |-> l.in_degree,
         minimal_invocations |-> l.minimal_invocations]

(* a call that lowers the in_degrees but inserts no successor *)
CallWithoutRelease(c, h, inv_id) ==
    LET l == CallLoop(h[inv_id], 1, c.in_degree, c.minimal_invocations \ {inv_id})
    IN  [linearized |-> Append(c.linearized, inv_id),
         in_degree |-> l.in_degree,
         minimal_invocations |-> c.minimal_invocations \ {inv_id}]

(* call(inv_id) on the bookkeeping c = [linearized, in_degree, minimal_invocations] *)
Call(c, h, inv_id) ==
    LET l == CallLoop(h[inv_id], 1, c.in_degree, c.minimal_invocations \ {inv_id})
    IN  [linearized |-> Append(c.linearized, inv_id),
         in_degree |-> l.in_degree,
         minimal_invocations |-> l.minimal_invocations]

(* the loop of undo over hb[inv_id], from position k on *)
RECURSIVE UndoLoop(_, _, _, _)
UndoLoop(list, k, deg, min) ==
    IF k > Len(list) THEN [in_degree |-> deg, minimal_invocations |-> min]
    ELSE LET next_inv_id == list[k]
             min2 == IF deg[next_inv_id] = 0 THEN min \ {next_inv_id} ELSE min
             deg2 == [deg EXCEPT ![next_inv_id] = @ + 1]
         IN  UndoLoop(list, k + 1, deg2, min2)

(* an undo that leaves the id on linearized *)
UndoWithoutPop(c, h, inv_id) ==
    LET l == UndoLoop(h[inv_id], 1, c.in_degree, c.minimal_invocations)
    IN  [linearized |-> c.linearized,
         in_degree |-> l.in_degree,
         minimal_invocations |-> l.minimal_invocations \cup {inv_id}]

(* an undo that raises the in_degrees but removes no successor *)
UndoKeepsSuccessors(c, h, inv_id) ==
    LET l == UndoLoop(h[inv_id], 1, c.in_degree, c.minimal_invocations)
    IN  [linearized |-> IF c.linearized = << >> THEN << >> ELSE Front(c.linearized),
         in_degree |-> l.in_degree,
         minimal_invocations |-> c.minimal_invocations \cup {inv_id}]

(* undo(inv_id); linearized.pop() drops the last element whatever it is *)
Undo(c, h, inv_id) ==
    LET l == UndoLoop(h[inv_id], 1, c.in_degree, c.minimal_invocations)
    IN  [linearized |-> IF c.linearized = << >> THEN << >> ELSE Front(c.linearized),
         in_degree |-> l.in_degree,
         minimal_invocations |-> l.minimal_invocations \cup {inv_id}]

(* feeds the ops of invs[k..] to s, ignoring what they return *)
RECURSIVE ExecAll(_, _, _, _)
ExecAll(T, s, ops, k) ==
    IF k > Len(ops) THEN s
    ELSE ExecAll(T, SeqExec(T, s, ops[k]).state, ops, k + 1)

(* a rebuild that forgets init_part *)
RebuildWithoutInit(T, e, lin) ==
    ExecAll(T, SeqDefault(T), [i \in 1..Len(lin) |-> e.parallel_part[lin[i]].op], 1)

(* rebuild_seq_spec: fresh instance, init_part, then the ops of linearized *)
RebuildSeqSpec(T, e, lin) ==
    LET afterInit == ExecAll(T, SeqDefault(T),
                             [i \in 1..Len(e.init_part) |-> e.init_part[i].op], 1)
    IN  ExecAll(T, afterInit,
                [i \in 1..Len(lin) |-> e.parallel_part[lin[i]].op], 1)

(* Iterator::all of check_init_part / check_post_part over invs[k..]:      *)
(* stops at the first invocation whose return differs (after executing it) *)
RECURSIVE ReplayAll(_, _, _, _)
ReplayAll(T, s, invs, k) ==
    IF k > Len(invs) THEN [state |-> s, ok |-> TRUE]
    ELSE LET r == SeqExec(T, s, invs[k].op)
         IN  IF r.ret = invs[k].ret
             THEN ReplayAll(T, r.state, invs, k + 1)
             ELSE [state |-> r.state, ok |-> FALSE]

-----------------------------------------------------------------------------
(* The executions the checker is run on.                                   *)

(* recorded invocations of a stack: the return has the kind of the op *)
StackInvocations ==
    { Invocation(Push(v), RetPush) : v \in Values }
      \cup { Invocation(Pop, RetPopNone) }
      \cup { Invocation(Pop, RetPopSome(v)) : v \in Values }

(* recorded invocations of a counter *)
CounterInvocations == { Invocation(Increment, OldValue(n)) : n \in 0..MaxInv }

Histories(Invs, n) == [1..n -> Invs]

(* the call/return timestamps of n parallel invocations as the recorder     *)
(* hands them out: 0..2n-1, each used once, call before return             *)
Layouts(n) ==
    { l \in [1..n -> { iv \in (0..(2*n - 1)) \X (0..(2*n - 1)) : iv[1] < iv[2] }] :
        \A i, j \in 1..n : i # j => {l[i][1], l[i][2]} \cap {l[j][1], l[j][2]} = {} }

(* parallel histories of n invocations, each on a thread of its own *)
ParallelHistories(Invs, n) ==
    { [ i \in 1..n |-> ParallelInvocation(i - 1, l[i][1], l[i][2], h[i].op, h[i].ret) ] :
        l \in Layouts(n), h \in Histories(Invs, n) }

(* every well-formed execution of at most MaxInv invocations *)
Executions(Invs) ==
    UNION { { Execution(i, p, q) :
                i \in Histories(Invs, n[1]),
                p \in ParallelHistories(Invs, n[2]),
                q \in Histories(Invs, n[3]) } :
            n \in { m \in (0..MaxInv) \X (0..MaxInv) \X (0..MaxInv) :
                      m[1] + m[2] + m[3] <= MaxInv } }

(* every pair of an operation of the two flags and a return of its kind *)
TwoSlotsInvocations ==
    { Invocation(WriteX, RetWrite), Invocation(WriteY, RetWrite) }
      \cup { Invocation(op, RetRead(b)) : op \in { ReadX, ReadY }, b \in BOOLEAN }

(* the failing execution printed in the crate documentation: thread 0's    *)
(* first ReadY overlaps thread 1's WriteY, its second one follows it       *)
ExecTwoSlotsDoc ==
    Execution(<< Invocation(WriteX, RetWrite) >>,
              << ParallelInvocation(0, 0, 3, ReadY, RetRead(FALSE)),
                 ParallelInvocation(0, 4, 5, ReadY, RetRead(FALSE)),
                 ParallelInvocation(1, 1, 2, WriteY, RetWrite) >>,
              << Invocation(WriteX, RetWrite) >>)

(* checker.rs tests::init_and_post_parts_are_sequentional *)
ExecSequential ==
    Execution(<< Invocation(Push(1), RetPush), Invocation(Push(2), RetPush) >>,
              << >>,
              << Invocation(Pop, RetPopSome(2)), Invocation(Pop, RetPopSome(1)) >>)

(* checker.rs tests::parallel_part_overlapping *)
ExecOverlapping ==
    Execution(<< Invocation(Push(1), RetPush), Invocation(Push(2), RetPush) >>,
              << ParallelInvocation(0, 4, 6, Pop, RetPopSome(2)),
                 ParallelInvocation(1, 5, 7, Pop, RetPopSome(1)) >>,
              << >>)

(* checker.rs tests::parallel_part_does_not_violate_happens_before *)
ExecHbViolation ==
    Execution(<< >>,
              << ParallelInvocation(0, 4, 6, Pop, RetPopSome(1)),
                 ParallelInvocation(0, 7, 9, Push(1), RetPush),
                 ParallelInvocation(1, 5, 8, Pop, RetPopNone) >>,
              << >>)

TestExecutions == { ExecSequential, ExecOverlapping, ExecHbViolation }

(* the execution of tests::parallel_part_overlapping with the two Pops      *)
(* overlapping in every way the timestamps 4..7 allow, and the two returns  *)
(* in either assignment to the threads                                      *)
OverlappingPops ==
    { Execution(ExecOverlapping.init_part,
                << ParallelInvocation(0, l[1][1] + 4, l[1][2] + 4, Pop, RetPopSome(v[1])),
                   ParallelInvocation(1, l[2][1] + 4, l[2][2] + 4, Pop, RetPopSome(v[2])) >>,
                << >>) :
        l \in { m \in Layouts(2) : m[1][1] < m[2][2] /\ m[2][1] < m[1][2] },
        v \in { << 2, 1 >>, << 1, 2 >> } }

-----------------------------------------------------------------------------
(* The checker as a step machine.                                          *)

(* the checker that check builds for e (checker.rs lines 33-65) *)
NewChecker(T, e) ==
    LET h == BuildHb(e.parallel_part)
        deg == BuildInDegree(e.parallel_part, h)
    IN  [execution |-> e, hb |-> h, in_degree |-> deg,
         minimal_invocations |-> BuildMinimal(deg),
         linearized |-> << >>, seq_spec |-> SeqDefault(T)]

(* no recorder is in use: the execution was handed to check as a value *)
RecorderIdle ==
    /\ init_recorder = [alive |-> FALSE, init_part |-> << >>]
    /\ parallel_recorder = [alive |-> FALSE, init_part |-> << >>,
                            parallel_part |-> << >>, next_thread_id |-> 0,
                            timer |-> 0]
    /\ threads = << >>
    /\ post_recorders = << >>
    /\ returned = << >>
    /\ thunks = [started |-> 0, panicked |-> {}, log |-> << >>]
    /\ scn = [pc |-> "none"]

(* check was not called by way of verify or check_scenario_with_loom *)
NoHarness == [pc |-> "none"]

(* check has built the checker for e and is about to call check_init_part *)
Start(T, e) ==
    LET c == NewChecker(T, e)
    IN  /\ SeqT = T
        /\ execution = c.execution
        /\ hb = c.hb
        /\ in_degree = c.in_degree
        /\ minimal_invocations = c.minimal_invocations
        /\ linearized = c.linearized
        /\ seq_spec = c.seq_spec
        /\ frames = << >>
        /\ pc = "check_init_part"
        /\ retval = FALSE
        /\ result = "none"
        /\ run = 1
        /\ first = [execution |-> << >>, result |-> "none", linearized |-> << >>]
        /\ RecorderIdle
        /\ harness = NoHarness

Init ==
    \E e \in Executions(StackInvocations) \cup TestExecutions \cup OverlappingPops :
        Start("SequentialStack", e)

InitCounter ==
    \E e \in Executions(CounterInvocations) : Start("SequentialCounter", e)

InitTwoSlots ==
    \E e \in Executions(TwoSlotsInvocations) \cup { ExecTwoSlotsDoc } :
        Start("TwoSlotsSequential", e)

Bookkeeping ==
    [linearized |-> linearized, in_degree |-> in_degree,
     minimal_invocations |-> minimal_invocations]

Top == frames[Len(frames)]

SetTop(f) == [frames EXCEPT ![Len(frames)] = f]

(* a check_init_part that goes on to the parallel part whatever init gave *)
CheckInitPartUnchecked ==
    /\ pc = "check_init_part"
    /\ seq_spec' = ReplayAll(SeqT, seq_spec, execution.init_part, 1).state
    /\ pc' = "check_parallel_part"
    /\ UNCHANGED << SeqT, execution, hb, in_degree, minimal_invocations,
                    linearized, frames, retval, result, run, first, rvars >>

(* check_init_part: the replay of init_part *)
CheckInitPart ==
    /\ pc = "check_init_part"
    /\ LET r == ReplayAll(SeqT, seq_spec, execution.init_part, 1)
       IN  /\ seq_spec' = r.state
           /\ IF r.ok
              THEN pc' = "check_parallel_part" /\ retval' = retval
              ELSE pc' = "return" /\ retval' = FALSE
    /\ UNCHANGED << SeqT, execution, hb, in_degree, minimal_invocations,
                    linearized, frames, result, run, first, rvars >>

(* a check_post_part that replays post_part on a fresh sequential spec *)
CheckPostPartOnFresh ==
    /\ pc = "check_parallel_part"
    /\ minimal_invocations = {}
    /\ LET r == ReplayAll(SeqT, SeqDefault(SeqT), execution.post_part, 1)
       IN  /\ seq_spec' = r.state
           /\ retval' = r.ok
    /\ pc' = "return"
    /\ UNCHANGED << SeqT, execution, hb, in_degree, minimal_invocations,
                    linearized, frames, result, run, first, rvars >>

(* check_parallel_part with no candidate: check_post_part *)
CheckPostPart ==
    /\ pc = "check_parallel_part"
    /\ minimal_invocations = {}
    /\ LET r == ReplayAll(SeqT, seq_spec, execution.post_part, 1)
       IN  /\ seq_spec' = r.state
           /\ retval' = r.ok
    /\ pc' = "return"
    /\ UNCHANGED << SeqT, execution, hb, in_degree, minimal_invocations,
                    linearized, frames, result, run, first, rvars >>

(* check_parallel_part with candidates: clone the set and iterate it.      *)
(* A frame holds the iterator over the clone (iter: the ids still to come, *)
(* tried: the ids yielded), the closure's inv_id (cur, 0 before the first  *)
(* one) and, as a history field the code has no copy of, the bookkeeping   *)
(* as it was when call(cur) began (before)                                 *)
EnterAny ==
    /\ pc = "check_parallel_part"
    /\ minimal_invocations # {}
    /\ frames' = Append(frames, [iter |-> minimal_invocations, tried |-> {}, cur |-> 0,
                                  before |-> Bookkeeping])
    /\ pc' = "any"
    /\ UNCHANGED << SeqT, execution, hb, in_degree, minimal_invocations,
                    linearized, seq_spec, retval, result, run, first, rvars >>

(* a closure after whose first candidate the iterator yields nothing more *)
TryFirstCandidateOnly ==
    /\ pc = "any"
    /\ \E inv_id \in Top.iter :
         LET c == Call(Bookkeeping, hb, inv_id)
             inv == execution.parallel_part[inv_id]
             r == SeqExec(SeqT, seq_spec, inv.op)
         IN  /\ linearized' = c.linearized
             /\ in_degree' = c.in_degree
             /\ minimal_invocations' = c.minimal_invocations
             /\ seq_spec' = r.state
             /\ frames' = SetTop([iter |-> {},
                                  tried |-> Top.tried \cup {inv_id},
                                  cur |-> inv_id,
                                  before |-> Bookkeeping])
             /\ pc' = IF r.ret = inv.ret THEN "check_parallel_part" ELSE "undo"
    /\ UNCHANGED << SeqT, execution, hb, retval, result, run, first, rvars >>

(* a closure whose iterator yields the same id again *)
TryCandidateAgain ==
    /\ pc = "any"
    /\ \E inv_id \in Top.iter :
         LET c == Call(Bookkeeping, hb, inv_id)
             inv == execution.parallel_part[inv_id]
             r == SeqExec(SeqT, seq_spec, inv.op)
         IN  /\ linearized' = c.linearized
             /\ in_degree' = c.in_degree
             /\ minimal_invocations' = c.minimal_invocations
             /\ seq_spec' = r.state
             /\ frames' = SetTop([iter |-> Top.iter,
                                  tried |-> Top.tried \cup {inv_id},
                                  cur |-> inv_id,
                                  before |-> Bookkeeping])
             /\ pc' = IF r.ret = inv.ret THEN "check_parallel_part" ELSE "undo"
    /\ UNCHANGED << SeqT, execution, hb, retval, result, run, first, rvars >>

(* the closure up to its recursive call, on the next id the iterator yields *)
(* (a HashSet iterates in any order)                                        *)
TryCandidate ==
    /\ pc = "any"
    /\ \E inv_id \in Top.iter :
         LET c == Call(Bookkeeping, hb, inv_id)
             inv == execution.parallel_part[inv_id]
             r == SeqExec(SeqT, seq_spec, inv.op)
         IN  /\ linearized' = c.linearized
             /\ in_degree' = c.in_degree
             /\ minimal_invocations' = c.minimal_invocations
             /\ seq_spec' = r.state
             /\ frames' = SetTop([iter |-> Top.iter \ {inv_id},
                                  tried |-> Top.tried \cup {inv_id},
                                  cur |-> inv_id,
                                  before |-> Bookkeeping])
             /\ pc' = IF r.ret = inv.ret THEN "check_parallel_part" ELSE "undo"
    /\ UNCHANGED << SeqT, execution, hb, retval, result, run, first, rvars >>

(* a closure that undoes without rebuilding the sequential spec *)
BacktrackWithoutRebuild ==
    /\ pc = "undo"
    /\ LET c == Undo(Bookkeeping, hb, Top.cur)
       IN  /\ linearized' = c.linearized
           /\ in_degree' = c.in_degree
           /\ minimal_invocations' = c.minimal_invocations
    /\ pc' = "any"
    /\ UNCHANGED << SeqT, execution, hb, seq_spec, frames, retval, result, run, first, rvars >>

(* a closure that rebuilds the sequential spec before it undoes *)
BacktrackRebuildsBeforeUndo ==
    /\ pc = "undo"
    /\ LET c == Undo(Bookkeeping, hb, Top.cur)
       IN  /\ linearized' = c.linearized
           /\ in_degree' = c.in_degree
           /\ minimal_invocations' = c.minimal_invocations
           /\ seq_spec' = RebuildSeqSpec(SeqT, execution, linearized)
    /\ pc' = "any"
    /\ UNCHANGED << SeqT, execution, hb, frames, retval, result, run, first, rvars >>

(* the closure after a failure: undo, rebuild_seq_spec, false *)
Backtrack ==
    /\ pc = "undo"
    /\ LET c == Undo(Bookkeeping, hb, Top.cur)
       IN  /\ linearized' = c.linearized
           /\ in_degree' = c.in_degree
           /\ minimal_invocations' = c.minimal_invocations
           /\ seq_spec' = RebuildSeqSpec(SeqT, execution, c.linearized)
    /\ pc' = "any"
    /\ UNCHANGED << SeqT, execution, hb, frames, retval, result, run, first, rvars >>

(* the iterator is exhausted: any answers false *)
AnyExhausted ==
    /\ pc = "any"
    /\ Top.iter = {}
    /\ frames' = Front(frames)
    /\ retval' = FALSE
    /\ pc' = "return"
    /\ UNCHANGED << SeqT, execution, hb, in_degree, minimal_invocations,
                    linearized, seq_spec, result, run, first, rvars >>

(* the recursive check_parallel_part returns into the closure *)
ReturnToClosure ==
    /\ pc = "return"
    /\ frames # << >>
    /\ IF retval
       THEN frames' = Front(frames) /\ pc' = "return"
       ELSE frames' = frames /\ pc' = "undo"
    /\ UNCHANGED << SeqT, execution, hb, in_degree, minimal_invocations,
                    linearized, seq_spec, retval, result, run, first, rvars >>

(* check_init_part returns to check, check to its caller *)
ReturnFromCheck ==
    /\ pc = "return"
    /\ frames = << >>
    /\ result' = IF retval THEN "true" ELSE "false"
    /\ pc' = "done"
    /\ UNCHANGED << SeqT, execution, hb, in_degree, minimal_invocations,
                    linearized, seq_spec, frames, retval, run, first, rvars >>

Next ==
    \/ CheckInitPart
    \/ CheckPostPart
    \/ EnterAny
    \/ TryCandidate
    \/ Backtrack
    \/ AnyExhausted
    \/ ReturnToClosure
    \/ ReturnFromCheck

Spec == Init /\ [][Next]_vars

(* check runs to its end: the checker is one sequential computation, so a *)
(* step that can be taken is taken                                         *)
SpecTermination == Init /\ [][Next]_vars /\ WF_vars(Next)

(* the same entries of parallel_part stored in the order p *)
Permute(par, p) == [ i \in 1..Len(par) |-> par[p[i]] ]

Orders(n) == { p \in [1..n -> 1..n] : \A i, j \in 1..n : p[i] = p[j] => i = j }

(* check is called a second time, on the execution with parallel_part      *)
(* stored in another order (or the same)                                    *)
Rerun ==
    /\ pc = "done"
    /\ run = 1
    /\ \E p \in Orders(Len(execution.parallel_part)) :
         LET c == NewChecker(SeqT,
                     [execution EXCEPT !.parallel_part = Permute(@, p)])
         IN  /\ execution' = c.execution
             /\ hb' = c.hb
             /\ in_degree' = c.in_degree
             /\ minimal_invocations' = c.minimal_invocations
             /\ linearized' = c.linearized
             /\ seq_spec' = c.seq_spec
    /\ frames' = << >>
    /\ pc' = "check_init_part"
    /\ retval' = FALSE
    /\ result' = "none"
    /\ run' = 2
    /\ first' = [execution |-> execution, result |-> result,
                 linearized |-> linearized]
    /\ UNCHANGED << SeqT, rvars >>

NextPair == Next \/ Rerun

(* two calls of check on one execution *)
SpecPair == Init /\ [][NextPair]_vars

(* the checker on executions of the sequential counter *)
SpecCounter == InitCounter /\ [][Next]_vars

(* the checker on executions of the two flags *)
SpecTwoSlots == InitTwoSlots /\ [][Next]_vars

-----------------------------------------------------------------------------
(* What the claims speak of, stated from the recorded execution alone.     *)

ParIds == 1..Len(execution.parallel_part)

(* a returned before b was called *)
Precedes(a, b) ==
    execution.parallel_part[a].return_timestamp
        < execution.parallel_part[b].call_timestamp

(* two invocations whose intervals intersect *)
Overlap(a, b) == a # b /\ ~Precedes(a, b) /\ ~Precedes(b, a)

(* order places every invocation after all those that precede it *)
RespectsHb(order) ==
    \A i, j \in 1..Len(order) : Precedes(order[i], order[j]) => i < j

(* order holds every id of parallel_part once *)
IsPermutation(order) ==
    /\ Len(order) = Len(execution.parallel_part)
    /\ { order[i] : i \in 1..Len(order) } = ParIds

(* the parallel invocations in the given order, as sequential invocations *)
InOrder(order) ==
    [ i \in 1..Len(order) |->
        Invocation(execution.parallel_part[order[i]].op,
                   execution.parallel_part[order[i]].ret) ]

(* what a fresh sequential spec returns for the k-th of invs *)
FreshRet(invs, k) ==
    SeqExec(SeqT,
            ExecAll(SeqT, SeqDefault(SeqT), [ i \in 1..(k - 1) |-> invs[i].op ], 1),
            invs[k].op).ret

(* a fresh sequential spec fed the ops of invs returns every recorded ret *)
Reproduces(invs) == \A k \in 1..Len(invs) : FreshRet(invs, k) = invs[k].ret

(* order is a linearization of the execution *)
IsLinearization(order) ==
    /\ IsPermutation(order)
    /\ RespectsHb(order)
    /\ Reproduces(execution.init_part \o InOrder(order) \o execution.post_part)

Linearizable == \E order \in Orders(Len(execution.parallel_part)) : IsLinearization(order)

-----------------------------------------------------------------------------
(* C1: check returns true exactly when some total order of the parallel    *)
(* invocations extends happens-before and, replayed between init_part and  *)
(* post_part on a fresh sequential spec, reproduces every recorded return; *)
(* it returns false exactly when there is no such order.                   *)
CheckDecidesLinearizability ==
    pc = "done" =>
        /\ result \in {"true", "false"}
        /\ (result = "true") <=> Linearizable

(* check has answered true for two overlapping invocations of which only   *)
(* one order is a linearization                                            *)
CheckAcceptedOverlapping ==
    /\ pc = "done"
    /\ result = "true"
    /\ Len(execution.parallel_part) = 2
    /\ Overlap(1, 2)
    /\ ~IsLinearization(<< 2, 1 >>)

-----------------------------------------------------------------------------
(* C2: whenever check returns true, `linearized` is a permutation of the   *)
(* ids of parallel_part that respects happens-before and whose replay      *)
(* between init_part and post_part reproduces the recorded returns.        *)
AcceptedOrderIsLinearization ==
    (pc = "done" /\ result = "true") => IsLinearization(linearized)

(* check has answered true with two invocations placed, the one stored     *)
(* second placed first                                                     *)
AcceptedWithReorderedStack ==
    /\ pc = "done"
    /\ result = "true"
    /\ linearized = << 2, 1 >>

-----------------------------------------------------------------------------
(* C3: the verdict of check does not depend on the order in which the      *)
(* candidates of the hash set are tried: two calls of check on the same    *)
(* execution, each trying the candidates in any order, return the same     *)
(* boolean.                                                                *)
SameVerdictWhateverCandidateOrder ==
    (run = 2 /\ pc = "done" /\ execution = first.execution)
        => result = first.result

(* two calls on one execution have both finished, having placed the        *)
(* invocations in different orders                                         *)
TwoRunsPlacedDifferently ==
    /\ run = 2
    /\ pc = "done"
    /\ execution = first.execution
    /\ Len(linearized) = 2
    /\ Len(first.linearized) = 2
    /\ linearized # first.linearized

-----------------------------------------------------------------------------
(* C9: storing the entries of parallel_part in another order, with every   *)
(* thread id, timestamp, op and ret kept, does not change the verdict.     *)
VerdictUnchangedByStorageOrder ==
    (run = 2 /\ pc = "done") => result = first.result

(* the second call has finished on a reordered execution in which the      *)
(* invocation stored second precedes the one stored first                  *)
RerunOnReorderedHistory ==
    /\ run = 2
    /\ pc = "done"
    /\ execution.parallel_part # first.execution.parallel_part
    /\ Len(execution.parallel_part) = 2
    /\ Precedes(2, 1)
    /\ result = "true"

-----------------------------------------------------------------------------
(* C4: in every value of `linearized` an invocation is placed only after   *)
(* every invocation that returned before it was called; and the execution  *)
(* whose returns need Pop -> Some(1) after the only Push(1), although that *)
(* Pop returned before the Push was called, is judged non-linearizable.    *)
PlacedAfterPredecessors ==
    /\ \A j \in 1..Len(linearized) :
         \A a \in ParIds :
            Precedes(a, linearized[j]) => \E i \in 1..(j - 1) : linearized[i] = a
    /\ (pc = "done" /\ execution = ExecHbViolation) => result = "false"

(* check has answered on the happens-before violating test execution *)
HbViolationJudged ==
    /\ pc = "done"
    /\ execution = ExecHbViolation
    /\ result = "false"

-----------------------------------------------------------------------------
(* C5: a node of the search answers false only when it has tried every     *)
(* invocation of the frontier (not placed, every predecessor placed); and  *)
(* two overlapping Pops returning Some(2) and Some(1) after Push(1),       *)
(* Push(2) are accepted whichever is stored or called first.               *)
Frontier ==
    { i \in ParIds \ Range(linearized) :
        \A a \in ParIds : Precedes(a, i) => a \in Range(linearized) }

WholeFrontierTried ==
    /\ (pc = "any" /\ Top.iter = {}) => Top.tried = Frontier
    /\ (pc = "done" /\ execution \in OverlappingPops) => result = "true"

(* a node is about to answer false after trying two candidates *)
NodeExhaustedAfterTwo ==
    /\ pc = "any"
    /\ Top.iter = {}
    /\ Cardinality(Top.tried) = 2

-----------------------------------------------------------------------------
(* C6 as stated: for the execution of tests::parallel_part_overlapping the *)
(* accepted order is thread 1's Pop, then thread 0's Pop.                  *)
ThreadOrder(order) ==
    [ i \in 1..Len(order) |-> execution.parallel_part[order[i]].thread_id ]

OverlappingAcceptedThread1First ==
    (pc = "done" /\ execution = ExecOverlapping /\ result = "true")
        => ThreadOrder(linearized) = << 1, 0 >>

(* C6 amended: for that execution the only linearization, and the order    *)
(* check accepts, is thread 0's Pop (Some(2)), then thread 1's Pop         *)
(* (Some(1)).                                                              *)
OverlappingAcceptedThread0First ==
    execution = ExecOverlapping =>
        /\ \A order \in Orders(2) :
              IsLinearization(order) <=> ThreadOrder(order) = << 0, 1 >>
        /\ pc = "done" => (result = "true" /\ ThreadOrder(linearized) = << 0, 1 >>)

(* check has accepted the execution of tests::parallel_part_overlapping *)
OverlappingAccepted ==
    /\ pc = "done"
    /\ execution = ExecOverlapping
    /\ result = "true"

-----------------------------------------------------------------------------
(* C7: with an empty parallel_part nothing is placed, no search node is    *)
(* entered, and check returns true exactly when init_part followed by      *)
(* post_part replays on one fresh sequential spec to the recorded returns. *)
SequentialOnlyVerdict ==
    Len(execution.parallel_part) = 0 =>
        /\ linearized = << >>
        /\ frames = << >>
        /\ pc \in {"check_init_part", "check_parallel_part", "return", "done"}
        /\ pc = "done" =>
             ((result = "true") <=>
                Reproduces(execution.init_part \o execution.post_part))

(* a sequential-only execution with init and post invocations is accepted *)
SequentialOnlyAccepted ==
    /\ pc = "done"
    /\ Len(execution.parallel_part) = 0
    /\ execution.init_part # << >>
    /\ execution.post_part # << >>
    /\ result = "true"

-----------------------------------------------------------------------------
(* C8: when the replay of init_part gives a return that differs from the   *)
(* recorded one, check returns false with nothing placed, no search node   *)
(* entered and no op executed after the failing init op; so an accepted    *)
(* execution with the ret of any init invocation replaced by another value *)
(* is rejected.                                                            *)
InitFails == ~Reproduces(execution.init_part)

FirstInitMismatch ==
    CHOOSE k \in 1..Len(execution.init_part) :
        /\ FreshRet(execution.init_part, k) # execution.init_part[k].ret
        /\ \A j \in 1..(k - 1) :
              FreshRet(execution.init_part, j) = execution.init_part[j].ret

StackRets == { RetPush, RetPopNone } \cup { RetPopSome(v) : v \in Values }

InitFailureStopsCheck ==
    /\ InitFails =>
         /\ linearized = << >>
         /\ frames = << >>
         /\ pc \in {"check_init_part", "return", "done"}
         /\ pc # "check_init_part" =>
              seq_spec = ExecAll(SeqT, SeqDefault(SeqT),
                                 [ i \in 1..FirstInitMismatch |->
                                     execution.init_part[i].op ], 1)
         /\ pc = "done" => result = "false"
    /\ (pc = "done" /\ result = "true") =>
         \A i \in 1..Len(execution.init_part) :
            \A r \in StackRets \ {execution.init_part[i].ret} :
               ~Reproduces([execution.init_part EXCEPT ![i].ret = r])

(* check has rejected an execution whose init replay fails and which has a *)
(* parallel invocation that was never placed                               *)
RejectedOnInit ==
    /\ pc = "done"
    /\ InitFails
    /\ Len(execution.parallel_part) > 0
    /\ result = "false"

-----------------------------------------------------------------------------
(* C10: for the counter whose Increment returns the old value, with empty  *)
(* init and post and two overlapping Increments, check returns true        *)
(* exactly when the two recorded returns are 0 and 1, in either            *)
(* assignment; with both returns 0 it returns false.                       *)
TwoOverlappingIncrements ==
    /\ execution.init_part = << >>
    /\ execution.post_part = << >>
    /\ Len(execution.parallel_part) = 2
    /\ Overlap(1, 2)

CounterVerdict ==
    (pc = "done" /\ TwoOverlappingIncrements) =>
        ((result = "true") <=>
            { execution.parallel_part[1].ret, execution.parallel_part[2].ret }
                = { OldValue(0), OldValue(1) })

(* two overlapping Increments that both returned 0 are rejected *)
BothObservedZeroRejected ==
    /\ pc = "done"
    /\ TwoOverlappingIncrements
    /\ execution.parallel_part[1].ret = OldValue(0)
    /\ execution.parallel_part[2].ret = OldValue(0)
    /\ result = "false"

-----------------------------------------------------------------------------
(* C11: for the two flags (both start false, WriteY sets y, ReadY returns  *)
(* y), an execution in which some ReadY returned Read(false) although some *)
(* WriteY returned before that ReadY was called is judged                  *)
(* non-linearizable.                                                       *)
StaleReadY ==
    \E a, b \in ParIds :
        /\ execution.parallel_part[a].op.name = "WriteY"
        /\ execution.parallel_part[b].op.name = "ReadY"
        /\ execution.parallel_part[b].ret = [name |-> "Read", some |-> TRUE, val |-> 0]
        /\ Precedes(a, b)

StaleReadYRejected == (pc = "done" /\ StaleReadY) => result = "false"

(* the execution of the crate documentation has been judged: its init      *)
(* replays, so the rejection comes from the parallel part                  *)
DocExecutionRejected ==
    /\ pc = "done"
    /\ execution = ExecTwoSlotsDoc
    /\ StaleReadY
    /\ ~InitFails
    /\ result = "false"

-----------------------------------------------------------------------------
(* C12: on a well-formed execution check never panics: call never takes    *)
(* in_degree below zero, every invocation id used to index hb, in_degree   *)
(* or parallel_part is in bounds, and undo never pops an empty linearized. *)
IdsInBounds ==
    /\ DOMAIN hb = ParIds
    /\ DOMAIN in_degree = ParIds
    /\ \A a \in ParIds : Range(hb[a]) \subseteq ParIds
    /\ minimal_invocations \subseteq ParIds
    /\ Range(linearized) \subseteq ParIds
    /\ \A i \in 1..Len(frames) :
          /\ frames[i].iter \subseteq ParIds
          /\ frames[i].tried \subseteq ParIds
    /\ pc = "undo" => Top.cur \in ParIds

CheckNeverPanics ==
    /\ IdsInBounds
    /\ \A b \in ParIds : in_degree[b] >= 0
    /\ pc = "undo" => (linearized # << >> /\ Last(linearized) = Top.cur)

(* undo is about to run on an invocation that has successors: call has     *)
(* decremented their in_degree and undo will pop linearized                *)
UndoOfPredecessor ==
    /\ pc = "undo"
    /\ hb[Top.cur] # << >>
    /\ \A k \in 1..Len(hb[Top.cur]) : in_degree[hb[Top.cur][k]] = 0

-----------------------------------------------------------------------------
(* The recorder of src/src/recorder.rs.  A thread of the model is an OS    *)
(* thread that may hold one PerThreadRecorder; every access to an atomic   *)
(* or to a mutex-guarded history is one step.                              *)

cvars == << SeqT, execution, hb, in_degree, minimal_invocations, linearized,
            seq_spec, frames, pc, retval, result, run, first >>

(* check has not been called *)
CheckerIdle ==
    /\ SeqT = "none"
    /\ execution = Execution(<< >>, << >>, << >>)
    /\ hb = << >>
    /\ in_degree = << >>
    /\ minimal_invocations = {}
    /\ linearized = << >>
    /\ seq_spec = SeqDefault("none")
    /\ frames = << >>
    /\ pc = "idle"
    /\ retval = FALSE
    /\ result = "none"
    /\ run = 1
    /\ first = [execution |-> << >>, result |-> "none", linearized |-> << >>]

(* The recorder is generic in Op and Ret and never looks into a value of   *)
(* either type: the operations are told apart by numbering the record      *)
(* calls, and the thunk of operation k returns a value that names k.       *)
NextOp == thunks.started + 1

RetOf(op) == 0 - op

(* Option::None of current_op *)
NoOp == 0

Threads == 1..MaxInv

(* f with the entry k added or replaced *)
Extend(f, k, v) == [ x \in (DOMAIN f) \cup {k} |-> IF x = k THEN v ELSE f[x] ]

(* InternalRecorder::new / with_capacity *)
InternalRecorder(thread_id) ==
    [thread_id |-> thread_id, invocations |-> << >>, current_op |-> NoOp,
     call_timestamp |-> 0]

(* a thread that holds no recorder *)
NoRecorder(p) ==
    [pc |-> p, loaded |-> 0, recorder |-> InternalRecorder(0), ret |-> NoOp]

(* a parallel recorder whose timer goes on from the init invocations *)
NewParallelPartRecorderTimerFromInit(init_part) ==
    [alive |-> TRUE, init_part |-> init_part, parallel_part |-> << >>,
     next_thread_id |-> 0, timer |-> Len(init_part)]

(* ParallelPartRecorder::new *)
NewParallelPartRecorder(init_part) ==
    [alive |-> TRUE, init_part |-> init_part, parallel_part |-> << >>,
     next_thread_id |-> 0, timer |-> 0]

(* record_init_part / record_init_part_with_capacity *)
RecordInitPart ==
    /\ init_recorder = [alive |-> TRUE, init_part |-> << >>]
    /\ parallel_recorder = [alive |-> FALSE, init_part |-> << >>,
                            parallel_part |-> << >>, next_thread_id |-> 0,
                            timer |-> 0]
    /\ threads = [ t \in Threads |-> NoRecorder("idle") ]
    /\ post_recorders = << >>
    /\ returned = << >>
    /\ thunks = [started |-> 0, panicked |-> {}, log |-> << >>]

(* the model stops after MaxInv record calls *)
MayRecord == thunks.started < MaxInv

(* the threads inside record_thread or holding a PerThreadRecorder *)
Borrowers == { t \in Threads : threads[t].pc \notin { "idle", "exited" } }

(* a record that puts the invocation at the front of the history *)
InitRecordAtFront(op, ret) ==
    /\ init_recorder.alive
    /\ MayRecord
    /\ init_recorder' = [init_recorder EXCEPT !.init_part = << Invocation(op, ret) >> \o @]
    /\ thunks' = [thunks EXCEPT !.started = @ + 1]
    /\ UNCHANGED << parallel_recorder, threads, post_recorders, returned >>

(* InitPartRecorder::record, the thunk returning ret *)
InitRecord(op, ret) ==
    /\ init_recorder.alive
    /\ MayRecord
    /\ init_recorder' = [init_recorder EXCEPT !.init_part = Append(@, Invocation(op, ret))]
    /\ thunks' = [thunks EXCEPT !.started = @ + 1]
    /\ UNCHANGED << parallel_recorder, threads, post_recorders, returned >>

(* InitPartRecorder::record, the thunk panicking: line 139 unwinds before   *)
(* the push, and on through the owner of the recorder                      *)
InitRecordPanics(op) ==
    /\ init_recorder.alive
    /\ MayRecord
    /\ init_recorder' = [init_recorder EXCEPT !.alive = FALSE]
    /\ thunks' = [thunks EXCEPT !.started = @ + 1, !.panicked = @ \cup {op}]
    /\ UNCHANGED << parallel_recorder, threads, post_recorders, returned >>

(* InitPartRecorder::record_parallel_part(self) *)
RecordParallelPart ==
    /\ init_recorder.alive
    /\ init_recorder' = [init_recorder EXCEPT !.alive = FALSE]
    /\ parallel_recorder' = NewParallelPartRecorder(init_recorder.init_part)
    /\ UNCHANGED << threads, post_recorders, returned, thunks >>

(* PostPartRecorder as a value *)
PostPartRecorder(init_part, parallel_part) ==
    [alive |-> TRUE, init_part |-> init_part, parallel_part |-> parallel_part,
     post_part |-> << >>]

(* InitPartRecorder::record_post_part(self) *)
InitRecordPostPart ==
    /\ init_recorder.alive
    /\ init_recorder' = [init_recorder EXCEPT !.alive = FALSE]
    /\ post_recorders' = Append(post_recorders,
                                PostPartRecorder(init_recorder.init_part, << >>))
    /\ UNCHANGED << parallel_recorder, threads, returned, thunks >>

(* InitPartRecorder::finish(self) *)
InitFinish ==
    /\ init_recorder.alive
    /\ init_recorder' = [init_recorder EXCEPT !.alive = FALSE]
    /\ returned' = Append(returned, Execution(init_recorder.init_part, << >>, << >>))
    /\ UNCHANGED << parallel_recorder, threads, post_recorders, thunks >>

(* record_thread, line 218: the load of next_thread_id *)
RecordThreadLoad(t) ==
    /\ parallel_recorder.alive
    /\ threads[t].pc = "idle"
    /\ threads' = [threads EXCEPT ![t].pc = "loaded",
                                  ![t].loaded = parallel_recorder.next_thread_id]
    /\ UNCHANGED << init_recorder, parallel_recorder, post_recorders, returned, thunks >>

(* record_thread, lines 219-223: the fetch_add and the new recorder, whose *)
(* thread_id is the value loaded before                                     *)
RecordThreadFetchAdd(t) ==
    /\ threads[t].pc = "loaded"
    /\ parallel_recorder' = [parallel_recorder EXCEPT !.next_thread_id = @ + 1]
    /\ threads' = [threads EXCEPT ![t].pc = "ready",
                                  ![t].recorder = InternalRecorder(threads[t].loaded)]
    /\ UNCHANGED << init_recorder, post_recorders, returned, thunks >>

(* a record that reads the timer without advancing it *)
RecordCallLoad(t, op) ==
    /\ threads[t].pc = "ready"
    /\ MayRecord
    /\ parallel_recorder' = parallel_recorder
    /\ threads' = [threads EXCEPT ![t].pc = "called",
                                  ![t].recorder.call_timestamp = parallel_recorder.timer,
                                  ![t].recorder.current_op = op]
    /\ thunks' = [thunks EXCEPT !.started = @ + 1,
                     !.log = Extend(@, parallel_recorder.timer,
                                    [thread |-> t, op |-> op, state |-> "called", before |-> {}])]
    /\ UNCHANGED << init_recorder, post_recorders, returned >>

(* PerThreadRecorder::record, lines 281-282: the call tick and add_call *)
RecordCall(t, op) ==
    /\ threads[t].pc = "ready"
    /\ MayRecord
    /\ parallel_recorder' = [parallel_recorder EXCEPT !.timer = @ + 1]
    /\ threads' = [threads EXCEPT ![t].pc = "called",
                                  ![t].recorder.call_timestamp = parallel_recorder.timer,
                                  ![t].recorder.current_op = op]
    /\ thunks' = [thunks EXCEPT !.started = @ + 1,
                     !.log = Extend(@, parallel_recorder.timer,
                                    [thread |-> t, op |-> op, state |-> "called", before |-> {}])]
    /\ UNCHANGED << init_recorder, post_recorders, returned >>

(* the call timestamps of the thunks that have run to their end *)
Ended == { c \in DOMAIN thunks.log : thunks.log[c].state = "ended" }

(* line 284: the thunk starts to run *)
ThunkStarts(t) ==
    /\ threads[t].pc = "called"
    /\ threads' = [threads EXCEPT ![t].pc = "running"]
    /\ thunks' = [thunks EXCEPT !.log[threads[t].recorder.call_timestamp] =
                     [@ EXCEPT !.state = "running", !.before = Ended]]
    /\ UNCHANGED << init_recorder, parallel_recorder, post_recorders, returned >>

(* line 284: the thunk returns ret *)
ThunkReturns(t, ret) ==
    /\ threads[t].pc = "running"
    /\ threads' = [threads EXCEPT ![t].pc = "finished", ![t].ret = ret]
    /\ thunks' = [thunks EXCEPT !.log[threads[t].recorder.call_timestamp].state = "ended"]
    /\ UNCHANGED << init_recorder, parallel_recorder, post_recorders, returned >>

(* a thunk whose panic is answered by recording the pending operation *)
ThunkPanicsRecorded(t) ==
    /\ threads[t].pc = "running"
    /\ parallel_recorder' = [parallel_recorder EXCEPT !.timer = @ + 1]
    /\ threads' = [threads EXCEPT ![t].pc = "unwinding",
                      ![t].recorder.current_op = NoOp,
                      ![t].recorder.invocations =
                          Append(@, ParallelInvocation(threads[t].recorder.thread_id,
                                                       threads[t].recorder.call_timestamp,
                                                       parallel_recorder.timer,
                                                       threads[t].recorder.current_op,
                                                       NoOp))]
    /\ thunks' = [thunks EXCEPT !.log[threads[t].recorder.call_timestamp].state = "panicked"]
    /\ UNCHANGED << init_recorder, post_recorders, returned >>

(* line 284: the thunk panics; record is left by unwinding, before the     *)
(* return tick and add_return                                              *)
ThunkPanics(t) ==
    /\ threads[t].pc = "running"
    /\ threads' = [threads EXCEPT ![t].pc = "unwinding"]
    /\ thunks' = [thunks EXCEPT !.log[threads[t].recorder.call_timestamp].state = "panicked"]
    /\ UNCHANGED << init_recorder, parallel_recorder, post_recorders, returned >>

(* an add_return that stores the call timestamp as the return timestamp *)
RecordReturnWithCallTimestamp(t) ==
    /\ threads[t].pc = "finished"
    /\ parallel_recorder' = [parallel_recorder EXCEPT !.timer = @ + 1]
    /\ threads' = [threads EXCEPT ![t].pc = "ready",
                      ![t].ret = NoOp,
                      ![t].recorder.current_op = NoOp,
                      ![t].recorder.invocations =
                          Append(@, ParallelInvocation(threads[t].recorder.thread_id,
                                                       threads[t].recorder.call_timestamp,
                                                       threads[t].recorder.call_timestamp,
                                                       threads[t].recorder.current_op,
                                                       threads[t].ret))]
    /\ UNCHANGED << init_recorder, post_recorders, returned, thunks >>

(* lines 286-287: the return tick and add_return *)
RecordReturn(t) ==
    /\ threads[t].pc = "finished"
    /\ parallel_recorder' = [parallel_recorder EXCEPT !.timer = @ + 1]
    /\ threads' = [threads EXCEPT ![t].pc = "ready",
                      ![t].ret = NoOp,
                      ![t].recorder.current_op = NoOp,
                      ![t].recorder.invocations =
                          Append(@, ParallelInvocation(threads[t].recorder.thread_id,
                                                       threads[t].recorder.call_timestamp,
                                                       parallel_recorder.timer,
                                                       threads[t].recorder.current_op,
                                                       threads[t].ret))]
    /\ UNCHANGED << init_recorder, post_recorders, returned, thunks >>

(* a drop that forgets the buffer *)
DropWithoutMerge(t) ==
    /\ threads[t].pc \in { "ready", "unwinding" }
    /\ threads' = [threads EXCEPT ![t].pc = "exited", ![t].recorder.invocations = << >>]
    /\ UNCHANGED << init_recorder, parallel_recorder, post_recorders, returned, thunks >>

(* Drop for PerThreadRecorder: the buffer is taken and appended to the     *)
(* parent's parallel_part under its mutex                                  *)
Drop(t) ==
    /\ threads[t].pc \in { "ready", "unwinding" }
    /\ parallel_recorder' = [parallel_recorder EXCEPT
                               !.parallel_part = @ \o threads[t].recorder.invocations]
    /\ threads' = [threads EXCEPT ![t].pc = "exited", ![t].recorder.invocations = << >>]
    /\ UNCHANGED << init_recorder, post_recorders, returned, thunks >>

(* ParallelPartRecorder::record_post_part(&self): both histories are taken *)
(* out of their mutexes, init_part first; the recorder stays               *)
RecordPostPart ==
    /\ parallel_recorder.alive
    /\ Len(post_recorders) < MaxInv
    /\ post_recorders' = Append(post_recorders,
                                PostPartRecorder(parallel_recorder.init_part,
                                                 parallel_recorder.parallel_part))
    /\ parallel_recorder' = [parallel_recorder EXCEPT !.init_part = << >>,
                                                      !.parallel_part = << >>]
    /\ UNCHANGED << init_recorder, threads, returned, thunks >>

(* ParallelPartRecorder::finish(self): no borrow of the recorder is left *)
ParallelFinish ==
    /\ parallel_recorder.alive
    /\ Borrowers = {}
    /\ parallel_recorder' = [parallel_recorder EXCEPT !.alive = FALSE]
    /\ returned' = Append(returned, Execution(parallel_recorder.init_part,
                                              parallel_recorder.parallel_part, << >>))
    /\ UNCHANGED << init_recorder, threads, post_recorders, thunks >>

(* PostPartRecorder::record on the i-th post recorder, the thunk returning *)
PostRecord(i, op, ret) ==
    /\ post_recorders[i].alive
    /\ MayRecord
    /\ post_recorders' = [post_recorders EXCEPT ![i].post_part =
                             Append(@, Invocation(op, ret))]
    /\ thunks' = [thunks EXCEPT !.started = @ + 1]
    /\ UNCHANGED << init_recorder, parallel_recorder, threads, returned >>

(* PostPartRecorder::record, the thunk panicking (line 315) *)
PostRecordPanics(i, op) ==
    /\ post_recorders[i].alive
    /\ MayRecord
    /\ post_recorders' = [post_recorders EXCEPT ![i].alive = FALSE]
    /\ thunks' = [thunks EXCEPT !.started = @ + 1, !.panicked = @ \cup {op}]
    /\ UNCHANGED << init_recorder, parallel_recorder, threads, returned >>

(* PostPartRecorder::finish(self) *)
PostFinish(i) ==
    /\ post_recorders[i].alive
    /\ post_recorders' = [post_recorders EXCEPT ![i].alive = FALSE]
    /\ returned' = Append(returned, Execution(post_recorders[i].init_part,
                                              post_recorders[i].parallel_part,
                                              post_recorders[i].post_part))
    /\ UNCHANGED << init_recorder, parallel_recorder, threads, thunks >>

-----------------------------------------------------------------------------
(* The recorder under any caller the types admit.                          *)

NoScenario == [pc |-> "none"]

(* the caller works with two threads, as tests::test_record_parallel_part  *)
(* does                                                                    *)
CallerThreads == { 1, 2 }

InitRecorder ==
    /\ RecordInitPart
    /\ scn = NoScenario
    /\ CheckerIdle
    /\ harness = NoHarness

CallerInitRecord ==
    /\ InitRecord(NextOp, RetOf(NextOp))
    /\ UNCHANGED << scn, cvars, harness >>

CallerInitRecordPanics ==
    /\ InitRecordPanics(NextOp)
    /\ UNCHANGED << scn, cvars, harness >>

CallerRecordParallelPart == RecordParallelPart /\ UNCHANGED << scn, cvars, harness >>

CallerInitRecordPostPart == InitRecordPostPart /\ UNCHANGED << scn, cvars, harness >>

CallerInitFinish == InitFinish /\ UNCHANGED << scn, cvars, harness >>

(* the threads are alike: they enter record_thread in the order of their   *)
(* numbers                                                                 *)
CallerRecordThreadLoad ==
    /\ \E t \in CallerThreads :
          /\ \A u \in 1..(t - 1) : threads[u].pc # "idle"
          /\ RecordThreadLoad(t)
    /\ UNCHANGED << scn, cvars, harness >>

CallerRecordThreadFetchAdd ==
    /\ \E t \in CallerThreads : RecordThreadFetchAdd(t)
    /\ UNCHANGED << scn, cvars, harness >>

CallerRecordCall ==
    /\ \E t \in CallerThreads : RecordCall(t, NextOp)
    /\ UNCHANGED << scn, cvars, harness >>

CallerThunkStarts ==
    /\ \E t \in CallerThreads : ThunkStarts(t)
    /\ UNCHANGED << scn, cvars, harness >>

CallerThunkReturns ==
    /\ \E t \in CallerThreads : ThunkReturns(t, RetOf(threads[t].recorder.current_op))
    /\ UNCHANGED << scn, cvars, harness >>

CallerThunkPanics ==
    /\ \E t \in CallerThreads : ThunkPanics(t)
    /\ UNCHANGED << scn, cvars, harness >>

CallerRecordReturn ==
    /\ \E t \in CallerThreads : RecordReturn(t)
    /\ UNCHANGED << scn, cvars, harness >>

CallerDrop ==
    /\ \E t \in CallerThreads : Drop(t)
    /\ UNCHANGED << scn, cvars, harness >>

CallerRecordPostPart == RecordPostPart /\ UNCHANGED << scn, cvars, harness >>

CallerParallelFinish == ParallelFinish /\ UNCHANGED << scn, cvars, harness >>

CallerPostRecord ==
    /\ \E i \in 1..Len(post_recorders) : PostRecord(i, NextOp, RetOf(NextOp))
    /\ UNCHANGED << scn, cvars, harness >>

CallerPostRecordPanics ==
    /\ \E i \in 1..Len(post_recorders) : PostRecordPanics(i, NextOp)
    /\ UNCHANGED << scn, cvars, harness >>

CallerPostFinish ==
    /\ \E i \in 1..Len(post_recorders) : PostFinish(i)
    /\ UNCHANGED << scn, cvars, harness >>

NextRecorder ==
    \/ CallerInitRecord
    \/ CallerInitRecordPanics
    \/ CallerRecordParallelPart
    \/ CallerInitRecordPostPart
    \/ CallerInitFinish
    \/ CallerRecordThreadLoad
    \/ CallerRecordThreadFetchAdd
    \/ CallerRecordCall
    \/ CallerThunkStarts
    \/ CallerThunkReturns
    \/ CallerThunkPanics
    \/ CallerRecordReturn
    \/ CallerDrop
    \/ CallerRecordPostPart
    \/ CallerParallelFinish
    \/ CallerPostRecord
    \/ CallerPostRecordPanics
    \/ CallerPostFinish

SpecRecorder == InitRecorder /\ [][NextRecorder]_vars

-----------------------------------------------------------------------------
(* execute_scenario_with_loom (src/src/scenario.rs): the main thread runs  *)
(* the init part, spawns one worker per list of parallel_part, joins them  *)
(* all and runs the post part.  The thunks are conc.exec(op); what they    *)
(* return is left open.                                                    *)

RECURSIVE Sum(_, _)
Sum(lens, k) == IF k > Len(lens) THEN 0 ELSE lens[k] + Sum(lens, k + 1)

(* the operations base+1 .. base+n *)
OpList(base, n) == [ j \in 1..n |-> base + j ]

(* Scenario with i init operations, lens[t] operations for worker t and q  *)
(* post operations, numbered in that order                                 *)
Scenario(i, lens, q) ==
    [init_part |-> OpList(0, i),
     parallel_part |-> [ t \in 1..Len(lens) |->
                           OpList(i + Sum(SubSeq(lens, 1, t - 1), 1), lens[t]) ],
     post_part |-> OpList(i + Sum(lens, 1), q)]

(* the scenarios of at most MaxInv workers and MaxInv operations *)
Scenarios ==
    { Scenario(sh[1], sh[2], sh[3]) :
        sh \in { m \in (0..MaxInv)
                         \X (UNION { [1..n -> 0..MaxInv] : n \in 0..MaxInv })
                         \X (0..MaxInv) :
                   m[1] + Sum(m[2], 1) + m[3] <= MaxInv } }

(* the workers of the scenario *)
Workers == 1..Len(scn.scenario.parallel_part)

(* worker t has left by a panic *)
Panicked(t) ==
    \E c \in DOMAIN thunks.log :
        thunks.log[c].thread = t /\ thunks.log[c].state = "panicked"

InitScenario ==
    /\ RecordInitPart
    /\ \E s \in Scenarios :
          scn = [pc |-> "init", scenario |-> s, init_done |-> 0,
                 par_done |-> [ t \in 1..Len(s.parallel_part) |-> 0 ],
                 post_done |-> 0, spawned |-> 0, joined |-> 0]
    /\ CheckerIdle
    /\ harness = NoHarness

(* lines 81-83: one turn of the init loop *)
ScnInitRecord ==
    /\ scn.pc = "init"
    /\ scn.init_done < Len(scn.scenario.init_part)
    /\ InitRecord(scn.scenario.init_part[scn.init_done + 1],
                  RetOf(scn.scenario.init_part[scn.init_done + 1]))
    /\ scn' = [scn EXCEPT !.init_done = @ + 1]
    /\ UNCHANGED << cvars, harness >>

(* lines 81-83: conc.exec panics on the main thread *)
ScnInitRecordPanics ==
    /\ scn.pc = "init"
    /\ scn.init_done < Len(scn.scenario.init_part)
    /\ InitRecordPanics(scn.scenario.init_part[scn.init_done + 1])
    /\ scn' = [scn EXCEPT !.pc = "panicked"]
    /\ UNCHANGED << cvars, harness >>

(* line 86 *)
ScnRecordParallelPart ==
    /\ scn.pc = "init"
    /\ scn.init_done = Len(scn.scenario.init_part)
    /\ RecordParallelPart
    /\ scn' = [scn EXCEPT !.pc = "parallel"]
    /\ UNCHANGED << cvars, harness >>

(* lines 89-104: the next worker is spawned *)
ScnSpawn ==
    /\ scn.pc = "parallel"
    /\ scn.spawned < Len(scn.scenario.parallel_part)
    /\ scn' = [scn EXCEPT !.spawned = @ + 1]
    /\ UNCHANGED << init_recorder, parallel_recorder, threads, post_recorders,
                    returned, thunks, cvars, harness >>

(* line 98, in the worker *)
ScnRecordThreadLoad ==
    /\ \E t \in 1..scn.spawned : RecordThreadLoad(t)
    /\ UNCHANGED << scn, cvars, harness >>

ScnRecordThreadFetchAdd ==
    /\ \E t \in Workers : RecordThreadFetchAdd(t)
    /\ UNCHANGED << scn, cvars, harness >>

(* a worker that takes its operations from the back of its list *)
ScnRecordCallFromBack ==
    /\ \E t \in Workers :
          /\ scn.par_done[t] < Len(scn.scenario.parallel_part[t])
          /\ RecordCall(t, scn.scenario.parallel_part[t][Len(scn.scenario.parallel_part[t])
                                                           - scn.par_done[t]])
          /\ scn' = [scn EXCEPT !.par_done[t] = @ + 1]
    /\ UNCHANGED << cvars, harness >>

(* lines 99-101: one turn of the worker's loop, up to the call tick *)
ScnRecordCall ==
    /\ \E t \in Workers :
          /\ scn.par_done[t] < Len(scn.scenario.parallel_part[t])
          /\ RecordCall(t, scn.scenario.parallel_part[t][scn.par_done[t] + 1])
          /\ scn' = [scn EXCEPT !.par_done[t] = @ + 1]
    /\ UNCHANGED << cvars, harness >>

ScnThunkStarts ==
    /\ \E t \in Workers : ThunkStarts(t)
    /\ UNCHANGED << scn, cvars, harness >>

ScnThunkReturns ==
    /\ \E t \in Workers : ThunkReturns(t, RetOf(threads[t].recorder.current_op))
    /\ UNCHANGED << scn, cvars, harness >>

ScnThunkPanics ==
    /\ \E t \in Workers : ThunkPanics(t)
    /\ UNCHANGED << scn, cvars, harness >>

ScnRecordReturn ==
    /\ \E t \in Workers : RecordReturn(t)
    /\ UNCHANGED << scn, cvars, harness >>

(* line 102: the worker's closure ends, or unwinds, and its recorder drops *)
ScnDrop ==
    /\ \E t \in Workers :
          /\ \/ threads[t].pc = "unwinding"
             \/ scn.par_done[t] = Len(scn.scenario.parallel_part[t])
          /\ Drop(t)
    /\ UNCHANGED << scn, cvars, harness >>

(* a join loop that does not wait for the workers *)
ScnJoinWithoutWaiting ==
    /\ scn.pc = "parallel"
    /\ scn.spawned = Len(scn.scenario.parallel_part)
    /\ scn.joined < scn.spawned
    /\ scn' = [scn EXCEPT !.joined = @ + 1]
    /\ UNCHANGED << init_recorder, parallel_recorder, threads, post_recorders,
                    returned, thunks, cvars, harness >>

(* lines 107-109: the next handle is joined; a worker's panic is passed on *)
(* by unwrap                                                               *)
ScnJoin ==
    /\ scn.pc = "parallel"
    /\ scn.spawned = Len(scn.scenario.parallel_part)
    /\ scn.joined < scn.spawned
    /\ threads[scn.joined + 1].pc = "exited"
    /\ scn' = IF Panicked(scn.joined + 1)
              THEN [scn EXCEPT !.pc = "panicked"]
              ELSE [scn EXCEPT !.joined = @ + 1]
    /\ UNCHANGED << init_recorder, parallel_recorder, threads, post_recorders,
                    returned, thunks, cvars, harness >>

(* line 113 *)
ScnRecordPostPart ==
    /\ scn.pc = "parallel"
    /\ scn.spawned = Len(scn.scenario.parallel_part)
    /\ scn.joined = scn.spawned
    /\ RecordPostPart
    /\ scn' = [scn EXCEPT !.pc = "post"]
    /\ UNCHANGED << cvars, harness >>

(* lines 114-116: one turn of the post loop *)
ScnPostRecord ==
    /\ scn.pc = "post"
    /\ scn.post_done < Len(scn.scenario.post_part)
    /\ PostRecord(1, scn.scenario.post_part[scn.post_done + 1],
                  RetOf(scn.scenario.post_part[scn.post_done + 1]))
    /\ scn' = [scn EXCEPT !.post_done = @ + 1]
    /\ UNCHANGED << cvars, harness >>

ScnPostRecordPanics ==
    /\ scn.pc = "post"
    /\ scn.post_done < Len(scn.scenario.post_part)
    /\ PostRecordPanics(1, scn.scenario.post_part[scn.post_done + 1])
    /\ scn' = [scn EXCEPT !.pc = "panicked"]
    /\ UNCHANGED << cvars, harness >>

(* line 118 *)
ScnFinish ==
    /\ scn.pc = "post"
    /\ scn.post_done = Len(scn.scenario.post_part)
    /\ PostFinish(1)
    /\ scn' = [scn EXCEPT !.pc = "done"]
    /\ UNCHANGED << cvars, harness >>

NextScenario ==
    \/ ScnInitRecord
    \/ ScnInitRecordPanics
    \/ ScnRecordParallelPart
    \/ ScnSpawn
    \/ ScnRecordThreadLoad
    \/ ScnRecordThreadFetchAdd
    \/ ScnRecordCall
    \/ ScnThunkStarts
    \/ ScnThunkReturns
    \/ ScnThunkPanics
    \/ ScnRecordReturn
    \/ ScnDrop
    \/ ScnJoin
    \/ ScnRecordPostPart
    \/ ScnPostRecord
    \/ ScnPostRecordPanics
    \/ ScnFinish

SpecScenario == InitScenario /\ [][NextScenario]_vars

-----------------------------------------------------------------------------
(* What the claims on the recorder speak of.                               *)

RECURSIVE Concat(_, _)
Concat(seqs, k) == IF k > Len(seqs) THEN << >> ELSE seqs[k] \o Concat(seqs, k + 1)

(* every parallel invocation recorded so far, wherever it is kept: in the  *)
(* buffers of the threads, in the shared history, in the post recorders    *)
Recorded ==
    Concat([ t \in Threads |-> threads[t].recorder.invocations ], 1)
      \o parallel_recorder.parallel_part
      \o Concat([ i \in 1..Len(post_recorders) |-> post_recorders[i].parallel_part ], 1)

(* the OS thread whose recorder took the call timestamp c *)
RecorderOf(c) == thunks.log[c].thread

(* no PerThreadRecorder is alive and no thread is inside record_thread *)
Released == \A t \in Threads : threads[t].pc \in { "idle", "exited" }

-----------------------------------------------------------------------------
(* C13: under every interleaving, every recorded parallel invocation has   *)
(* call_timestamp < return_timestamp, of two invocations of one per-thread *)
(* recorder the earlier returns before the later is called, and no two     *)
(* timestamps of the parallel invocations of a recorder are equal.         *)
TimestampsStrictlyOrdered ==
    \A i, j \in 1..Len(Recorded) :
        LET a == Recorded[i]
            b == Recorded[j]
        IN  /\ a.call_timestamp < a.return_timestamp
            /\ (RecorderOf(a.call_timestamp) = RecorderOf(b.call_timestamp)
                  /\ a.call_timestamp < b.call_timestamp)
                 => a.return_timestamp < b.call_timestamp
            /\ i # j => {a.call_timestamp, a.return_timestamp}
                          \cap {b.call_timestamp, b.return_timestamp} = {}

(* two threads have recorded invocations that overlap                      *)
OverlappingRecorded ==
    \E i, j \in 1..Len(Recorded) :
        /\ RecorderOf(Recorded[i].call_timestamp) # RecorderOf(Recorded[j].call_timestamp)
        /\ Recorded[i].call_timestamp < Recorded[j].call_timestamp
        /\ Recorded[j].call_timestamp < Recorded[i].return_timestamp

-----------------------------------------------------------------------------
(* C14: every call of record_thread allocates a fresh thread_id: no two    *)
(* per-thread recorders carry the same thread_id, also when the calls are  *)
(* made concurrently by the worker threads.                                *)
HoldsRecorder(t) == threads[t].pc \notin { "idle", "loaded" }

ThreadIdsFresh ==
    \A t, u \in Threads :
        (t # u /\ HoldsRecorder(t) /\ HoldsRecorder(u))
            => threads[t].recorder.thread_id # threads[u].recorder.thread_id

-----------------------------------------------------------------------------
(* C15: the recorded happens-before is sound for real time: when           *)
(* a.return_timestamp < b.call_timestamp, a's thunk had run to its end     *)
(* before b's thunk started; the thunk of a recorded invocation runs       *)
(* wholly between its call tick and its return tick.                       *)
HbSoundForRealTime ==
    \A i, j \in 1..Len(Recorded) :
        LET a == Recorded[i]
            b == Recorded[j]
        IN  /\ thunks.log[a.call_timestamp].state = "ended"
            /\ a.return_timestamp < b.call_timestamp
                 => a.call_timestamp \in thunks.log[b.call_timestamp].before

(* of two invocations recorded by different threads one returned before    *)
(* the other was called                                                    *)
OrderedAcrossThreads ==
    \E i, j \in 1..Len(Recorded) :
        /\ RecorderOf(Recorded[i].call_timestamp) # RecorderOf(Recorded[j].call_timestamp)
        /\ Recorded[i].return_timestamp < Recorded[j].call_timestamp

-----------------------------------------------------------------------------
(* C16: in execute_scenario_with_loom every init operation has completed   *)
(* before any worker takes its first call timestamp, and a post operation  *)
(* starts only after every worker has taken its last return timestamp and  *)
(* merged its buffer.                                                      *)
ParallelOps == Sum([ t \in Workers |-> Len(scn.scenario.parallel_part[t]) ], 1)

InitThenWorkersThenPost ==
    /\ (parallel_recorder.timer > 0 \/ \E t \in Threads : threads[t].pc # "idle")
          => Len(init_recorder.init_part) = Len(scn.scenario.init_part)
    /\ \A i \in 1..Len(post_recorders) :
          post_recorders[i].post_part # << >>
             => /\ \A t \in Workers : threads[t].pc = "exited"
                /\ parallel_recorder.timer = 2 * ParallelOps
                /\ Len(post_recorders[i].parallel_part) = ParallelOps

(* a post operation has run after a worker's operation *)
PostAfterWorker ==
    /\ post_recorders # << >>
    /\ post_recorders[1].post_part # << >>
    /\ post_recorders[1].parallel_part # << >>

-----------------------------------------------------------------------------
(* C17: once every per-thread recorder has been dropped, the shared        *)
(* parallel history holds each recorded invocation exactly once, the       *)
(* invocations of one recorder forming one contiguous block in recorded    *)
(* order, whatever the order the recorders were dropped in; the Execution  *)
(* returned by record_post_part().finish() or by finish() carries exactly  *)
(* that history.                                                           *)
Blocks(h) ==
    \A i, j \in 1..Len(h) :
        (i < j /\ RecorderOf(h[i].call_timestamp) = RecorderOf(h[j].call_timestamp))
           => /\ h[i].call_timestamp < h[j].call_timestamp
              /\ \A k \in i..j :
                    RecorderOf(h[k].call_timestamp) = RecorderOf(h[i].call_timestamp)

EachOnce(h) ==
    /\ { h[i].call_timestamp : i \in 1..Len(h) } = Ended
    /\ Len(h) = Cardinality(Ended)
    /\ \A i \in 1..Len(h) :
          /\ h[i].op = thunks.log[h[i].call_timestamp].op
          /\ h[i].ret = 0 - h[i].op

MergedOnceInBlocks ==
    (Released /\ parallel_recorder.alive /\ post_recorders = << >>)
        => /\ EachOnce(parallel_recorder.parallel_part)
           /\ Blocks(parallel_recorder.parallel_part)

(* a step that hands the parallel history on hands on all of it *)
HistoryCarried ==
    /\ (parallel_recorder.alive /\ Len(post_recorders') > Len(post_recorders))
          => post_recorders'[Len(post_recorders')].parallel_part
                = parallel_recorder.parallel_part
    /\ (parallel_recorder.alive /\ ~parallel_recorder'.alive)
          => returned'[Len(returned')].parallel_part = parallel_recorder.parallel_part
    /\ \A i \in 1..Len(post_recorders) :
          (post_recorders[i].alive /\ ~post_recorders'[i].alive
             /\ Len(returned') > Len(returned))
             => returned'[Len(returned')].parallel_part = post_recorders[i].parallel_part

MergedHistoryReturned == []MergedOnceInBlocks /\ [][HistoryCarried]_vars

(* an Execution has been returned whose parallel history holds the block   *)
(* of the recorder with the higher thread_id first                         *)
ReturnedWithLaterRecorderFirst ==
    \E k \in 1..Len(returned) :
        /\ Len(returned[k].parallel_part) = 2
        /\ returned[k].parallel_part[1].thread_id > returned[k].parallel_part[2].thread_id

-----------------------------------------------------------------------------
(* C18: when the thunk passed to record panics no invocation is appended   *)
(* for its operation: the init and post histories, the per-thread buffers  *)
(* and the shared parallel history hold only invocations whose thunk       *)
(* returned, and what was recorded before the panic is unchanged.          *)
PanickedOps ==
    thunks.panicked
      \cup { thunks.log[c].op : c \in { d \in DOMAIN thunks.log :
                                           thunks.log[d].state = "panicked" } }

SequentialRecorded ==
    init_recorder.init_part
      \o Concat([ i \in 1..Len(post_recorders) |->
                    post_recorders[i].init_part \o post_recorders[i].post_part ], 1)
      \o parallel_recorder.init_part

OnlyReturnedThunks ==
    /\ \A i \in 1..Len(Recorded) : Recorded[i].op \notin PanickedOps
    /\ \A i \in 1..Len(SequentialRecorded) : SequentialRecorded[i].op \notin PanickedOps

PanicLeavesRecords ==
    PanickedOps' # PanickedOps
       => /\ init_recorder'.init_part = init_recorder.init_part
          /\ parallel_recorder' = parallel_recorder
          /\ \A t \in Threads : threads'[t].recorder.invocations
                                   = threads[t].recorder.invocations
          /\ \A i \in 1..Len(post_recorders) :
                /\ post_recorders'[i].init_part = post_recorders[i].init_part
                /\ post_recorders'[i].parallel_part = post_recorders[i].parallel_part
                /\ post_recorders'[i].post_part = post_recorders[i].post_part

PanickedThunkNotRecorded == []OnlyReturnedThunks /\ [][PanicLeavesRecords]_vars

(* a thread whose second thunk panicked has dropped its recorder: the      *)
(* shared history holds its first invocation alone                         *)
MergedAfterPanic ==
    \E t \in Threads :
        /\ threads[t].pc = "exited"
        /\ \E c \in DOMAIN thunks.log :
              thunks.log[c].thread = t /\ thunks.log[c].state = "panicked"
        /\ Len(parallel_recorder.parallel_part) = 1
        /\ RecorderOf(parallel_recorder.parallel_part[1].call_timestamp) = t

-----------------------------------------------------------------------------
(* C19: a phase once left cannot be used again: after the parallel         *)
(* recorder has gone over to the post phase no per-thread recorder can be  *)
(* created or record an invocation, and the transition cannot be taken a   *)
(* second time.                                                            *)
LeftPhasesStayLeft ==
    /\ (parallel_recorder.alive /\ post_recorders = << >>)
          => parallel_recorder.init_part = init_recorder.init_part
    /\ post_recorders # << >>
          => /\ Len(post_recorders) = 1
             /\ \A t \in Threads : threads[t].pc \in { "idle", "exited" }

-----------------------------------------------------------------------------
(* C20: the timestamp counter of the parallel phase starts at 0 whatever   *)
(* the number of init invocations; after N parallel invocations have been  *)
(* recorded the timestamps in use are exactly 0..2N-1, each used once;     *)
(* when B's record runs wholly while A's thunk runs, A has call 0 and      *)
(* return 3, B has call 1 and return 2.                                    *)
TimestampsInUse ==
    UNION { { Recorded[i].call_timestamp, Recorded[i].return_timestamp } :
              i \in 1..Len(Recorded) }

(* no record call on a per-thread recorder is under way *)
Quiescent ==
    \A t \in Threads : threads[t].pc \in { "idle", "loaded", "ready", "exited" }

Nested(a, b) ==
    a.call_timestamp < b.call_timestamp /\ b.return_timestamp < a.return_timestamp

NestedAsInTest ==
    \A i, j \in 1..Len(Recorded) :
        (Len(Recorded) = 2 /\ Nested(Recorded[i], Recorded[j]))
           => /\ Recorded[i].call_timestamp = 0
              /\ Recorded[i].return_timestamp = 3
              /\ Recorded[j].call_timestamp = 1
              /\ Recorded[j].return_timestamp = 2

(* the statement as it stands *)
TimestampsDense ==
    /\ Quiescent => TimestampsInUse = 0..(2 * Len(Recorded) - 1)
    /\ Quiescent => NestedAsInTest
    /\ (parallel_recorder.alive /\ DOMAIN thunks.log = {}) => parallel_recorder.timer = 0

(* ... where no thunk of a parallel record has panicked *)
TimestampsDenseUnlessPanic ==
    /\ (Quiescent /\ \A c \in DOMAIN thunks.log : thunks.log[c].state # "panicked")
          => /\ TimestampsInUse = 0..(2 * Len(Recorded) - 1)
             /\ NestedAsInTest
    /\ (parallel_recorder.alive /\ DOMAIN thunks.log = {}) => parallel_recorder.timer = 0

(* B's invocation lies within A's: A has 0 and 3, B has 1 and 2 *)
NestedRecorded ==
    /\ Quiescent
    /\ \E i, j \in 1..Len(Recorded) :
          /\ Nested(Recorded[i], Recorded[j])
          /\ Recorded[i].call_timestamp = 0
          /\ Recorded[i].return_timestamp = 3
          /\ Recorded[j].call_timestamp = 1
          /\ Recorded[j].return_timestamp = 2
          /\ thunks.log[0].state = "ended"
          /\ 0 \notin thunks.log[1].before

-----------------------------------------------------------------------------
(* C21: record on an init (post) recorder appends {op, ret of the thunk}   *)
(* at the end of the init (post) history and leaves every other history    *)
(* unchanged, so that the history is the sequence of the record calls in   *)
(* call order; finish returns an Execution with exactly the histories of   *)
(* the recorder it consumes.                                               *)
InCallOrder(h) ==
    /\ \A k \in 1..Len(h) : h[k].op \in 1..thunks.started /\ h[k].ret = RetOf(h[k].op)
    /\ \A k, l \in 1..Len(h) : k < l => h[k].op < h[l].op

SequentialInCallOrder ==
    /\ InCallOrder(init_recorder.init_part)
    /\ \A i \in 1..Len(post_recorders) :
          /\ InCallOrder(post_recorders[i].init_part)
          /\ InCallOrder(post_recorders[i].post_part)

(* a record call on an init or post recorder whose thunk has returned *)
SequentialRecordReturned ==
    /\ thunks'.started = thunks.started + 1
    /\ thunks'.log = thunks.log
    /\ thunks'.panicked = thunks.panicked

RecordAppendsFinishReturns ==
    /\ init_recorder'.init_part # init_recorder.init_part =>
          /\ init_recorder'.init_part =
                Append(init_recorder.init_part, Invocation(NextOp, RetOf(NextOp)))
          /\ UNCHANGED << parallel_recorder, threads, post_recorders, returned >>
    /\ \A i \in 1..Len(post_recorders) :
          post_recorders'[i].post_part # post_recorders[i].post_part =>
              /\ post_recorders' = [post_recorders EXCEPT ![i].post_part =
                                       Append(@, Invocation(NextOp, RetOf(NextOp)))]
              /\ UNCHANGED << init_recorder, parallel_recorder, threads, returned >>
    /\ SequentialRecordReturned =>
          \/ init_recorder'.init_part # init_recorder.init_part
          \/ \E i \in 1..Len(post_recorders) :
                post_recorders'[i].post_part # post_recorders[i].post_part
    /\ (init_recorder.alive /\ Len(returned') > Len(returned)) =>
          returned' = Append(returned, Execution(init_recorder.init_part, << >>, << >>))
    /\ \A i \in 1..Len(post_recorders) :
          (post_recorders[i].alive /\ ~post_recorders'[i].alive
             /\ Len(returned') > Len(returned)) =>
              returned' = Append(returned, Execution(post_recorders[i].init_part,
                                                     post_recorders[i].parallel_part,
                                                     post_recorders[i].post_part))

SequentialRecordAppends == []SequentialInCallOrder /\ [][RecordAppendsFinishReturns]_vars

(* an Execution was returned that holds two init invocations, or an init   *)
(* and a post invocation                                                   *)
InitAndPostRecorded ==
    \E k \in 1..Len(returned) :
        \/ Len(returned[k].init_part) = 2
        \/ Len(returned[k].init_part) = 1 /\ Len(returned[k].post_part) = 1

-----------------------------------------------------------------------------
(* C22: under every interleaving the Execution returned by                 *)
(* execute_scenario_with_loom has the shape of the scenario: init_part and *)
(* post_part carry the operations of the scenario's init_part and          *)
(* post_part in order, parallel_part holds exactly one invocation per      *)
(* operation of the scenario's parallel_part, the invocations of one       *)
(* worker carry the operations of its list in list order, and every ret is *)
(* what exec returned for that operation.                                  *)
OpsOf(h) == [ k \in 1..Len(h) |-> h[k].op ]

(* the invocations of h that some recorder of OS thread t has recorded *)
WorkerPart(h, t) == SelectSeq(h, LAMBDA a : RecorderOf(a.call_timestamp) = t)

ExecutionHasScenarioShape ==
    scn.pc = "done" =>
       /\ Len(returned) = 1
       /\ LET e == returned[1]
              s == scn.scenario
          IN /\ OpsOf(e.init_part) = s.init_part
             /\ OpsOf(e.post_part) = s.post_part
             /\ Len(e.parallel_part) = Sum([ t \in 1..Len(s.parallel_part) |->
                                               Len(s.parallel_part[t]) ], 1)
             /\ \A t \in 1..Len(s.parallel_part) :
                   OpsOf(WorkerPart(e.parallel_part, t)) = s.parallel_part[t]
             /\ \A k \in 1..Len(e.init_part) : e.init_part[k].ret = RetOf(e.init_part[k].op)
             /\ \A k \in 1..Len(e.parallel_part) :
                   e.parallel_part[k].ret = RetOf(e.parallel_part[k].op)
             /\ \A k \in 1..Len(e.post_part) : e.post_part[k].ret = RetOf(e.post_part[k].op)

(* a scenario of two workers was executed and the second worker has merged *)
(* its invocation before the first                                         *)
ScenarioExecuted ==
    /\ scn.pc = "done"
    /\ LET e == returned[1]
           s == scn.scenario
       IN /\ Len(s.parallel_part) = 2
          /\ Len(e.parallel_part) = 2
          /\ e.parallel_part[1].op = s.parallel_part[2][1]

-----------------------------------------------------------------------------
(* Lincheck::verify (src/src/lib.rs) and check_scenario_with_loom          *)
(* (src/src/scenario.rs).  What the closure handed to loom::model does in  *)
(* one interleaving is an input here: check returns true, check returns    *)
(* false, or conc.exec panics.  loom explores the interleavings of a       *)
(* scenario one after the other, always in the same order, and stops at    *)
(* the first panic; proptest's TestRunner::run generates the scenarios,    *)
(* catches a panic of the test closure as a failure, shrinks a failing     *)
(* scenario and returns the simplest failing one it found.                 *)

(* everything but harness *)
nvars == << cvars, init_recorder, parallel_recorder, threads, post_recorders,
            returned, thunks, scn >>

DefaultNumThreads == 2

DefaultNumOps == 5

(* Default for Lincheck *)
LincheckDefault == [num_threads |-> DefaultNumThreads, num_ops |-> DefaultNumOps]

(* the Lincheck values the tests call verify on *)
Configs == { [num_threads |-> 1, num_ops |-> 1], LincheckDefault }

(* Arbitrary for Scenario: 1..=num_threads lists in parallel_part, every   *)
(* list of 0..=num_ops operations; cut to the scenarios of the model       *)
ArbitraryWith(args) ==
    { s \in Scenarios :
        /\ Len(s.init_part) <= args.num_ops
        /\ Len(s.parallel_part) \in 1..args.num_threads
        /\ \A t \in 1..Len(s.parallel_part) : Len(s.parallel_part[t]) <= args.num_ops
        /\ Len(s.post_part) <= args.num_ops }

(* loom explores at most MaxInterleavings interleavings of a scenario *)
MaxInterleavings == 2

(* what the closure does in each interleaving of a scenario, in the order  *)
(* in which loom explores them                                             *)
Outcomes ==
    UNION { [1..n -> { "true", "false", "panic" }] : n \in 1..MaxInterleavings }

(* proptest runs MaxCases cases and tries MaxShrinks simpler scenarios *)
MaxCases == 2

MaxShrinks == 1

(* the scenarios proptest's shrinking of the vec strategies may try: lists *)
(* dropped or shortened, within the strategy's size ranges                 *)
Simpler(s) ==
    { c \in ArbitraryWith(LincheckDefault) :
        /\ c # s
        /\ Len(c.init_part) <= Len(s.init_part)
        /\ Len(c.parallel_part) <= Len(s.parallel_part)
        /\ \A t \in 1..Len(c.parallel_part) :
              Len(c.parallel_part[t]) <= Len(s.parallel_part[t])
        /\ Len(c.post_part) <= Len(s.post_part) }

NoPayload == [kind |-> "none"]

(* the payload of the panic at scenario.rs line 62 *)
UnknownPayload == "loom::model panicked with unknown payload"

(* the payload p of a panic of the user's exec *)
UserPayload == "p"

(* the Execution recorded in interleaving k of scenario s *)
ExecutionOf(s, k) == [scenario |-> s, interleaving |-> k]

(* self.verify() has built the TestRunner; hook is the panic hook the      *)
(* caller has installed                                                    *)
InitVerify ==
    /\ CheckerIdle
    /\ RecorderIdle
    /\ \E c \in Configs, h \in { "default", "custom" } :
          harness = [pc |-> "run", self |-> c, hook |-> h, entry_hook |-> h,
                     old_hook |-> h, phase |-> "test", cases |-> 0, shrinks |-> 0,
                     scenario |-> Scenario(0, << >>, 0), outcomes |-> << >>,
                     iter |-> 0, caught |-> NoPayload, ret |-> NoPayload,
                     failing |-> NoPayload, verify |-> NoPayload,
                     verify_or_panic |-> NoPayload]

(* lib.rs lines 262-263: the runner draws a scenario from                  *)
(* any::<Scenario<_>>(), whose parameters are Lincheck::default(), and     *)
(* calls the test closure on it                                            *)
RunnerGenerates ==
    /\ harness.pc = "run"
    /\ harness.failing = NoPayload
    /\ harness.cases < MaxCases
    /\ \E s \in ArbitraryWith(LincheckDefault), o \in Outcomes :
          harness' = [harness EXCEPT !.pc = "call", !.phase = "test",
                                     !.scenario = s, !.outcomes = o]
    /\ UNCHANGED nvars

(* after a failure the runner calls the test closure on a simpler scenario *)
RunnerShrinks ==
    /\ harness.pc = "run"
    /\ harness.failing # NoPayload
    /\ harness.shrinks < MaxShrinks
    /\ \E s \in Simpler(harness.failing.scenario), o \in Outcomes :
          harness' = [harness EXCEPT !.pc = "call", !.phase = "shrink",
                                     !.scenario = s, !.outcomes = o]
    /\ UNCHANGED nvars

(* scenario.rs lines 41-42: take_hook and set_hook of the empty hook *)
TakeHook ==
    /\ harness.pc = "call"
    /\ harness' = [harness EXCEPT !.pc = "model", !.entry_hook = harness.hook,
                                  !.old_hook = harness.hook, !.hook = "silent",
                                  !.iter = 1, !.caught = NoPayload, !.ret = NoPayload]
    /\ UNCHANGED nvars

(* lines 46-53: in this interleaving check returns true; loom goes on to   *)
(* the next interleaving, or loom::model returns and catch_unwind gives Ok *)
LoomClosureReturns ==
    /\ harness.pc = "model"
    /\ harness.outcomes[harness.iter] = "true"
    /\ harness' = IF harness.iter < Len(harness.outcomes)
                  THEN [harness EXCEPT !.iter = @ + 1]
                  ELSE [harness EXCEPT !.pc = "caught", !.caught = [kind |-> "ok"]]
    /\ UNCHANGED nvars

(* a closure whose panic_any lets loom go on to the next interleaving *)
LoomClosurePanicsLoomGoesOn ==
    /\ harness.pc = "model"
    /\ harness.outcomes[harness.iter] = "false"
    /\ harness' = IF harness.iter < Len(harness.outcomes)
                  THEN [harness EXCEPT !.iter = @ + 1]
                  ELSE [harness EXCEPT !.pc = "caught",
                           !.caught = [kind |-> "execution",
                                       execution |-> ExecutionOf(harness.scenario,
                                                                 harness.iter)]]
    /\ UNCHANGED nvars

(* lines 49-51: check returns false and panic_any(execution) unwinds out   *)
(* of loom::model into catch_unwind                                        *)
LoomClosurePanics ==
    /\ harness.pc = "model"
    /\ harness.outcomes[harness.iter] = "false"
    /\ harness' = [harness EXCEPT !.pc = "caught",
                      !.caught = [kind |-> "execution",
                                  execution |-> ExecutionOf(harness.scenario,
                                                            harness.iter)]]
    /\ UNCHANGED nvars

(* line 47: conc.exec panics with the payload p, which unwinds out of      *)
(* loom::model into catch_unwind                                           *)
LoomSutPanics ==
    /\ harness.pc = "model"
    /\ harness.outcomes[harness.iter] = "panic"
    /\ harness' = [harness EXCEPT !.pc = "caught",
                      !.caught = [kind |-> "payload", payload |-> UserPayload]]
    /\ UNCHANGED nvars

(* a harness that puts the hook back only when nothing was caught *)
SetOldHookUnlessCaught ==
    /\ harness.pc = "caught"
    /\ harness' = [harness EXCEPT !.pc = "restored",
                      !.hook = IF harness.caught.kind = "ok"
                               THEN harness.old_hook ELSE @]
    /\ UNCHANGED nvars

(* line 58: set_hook(old_hook) *)
SetOldHook ==
    /\ harness.pc = "caught"
    /\ harness' = [harness EXCEPT !.pc = "restored", !.hook = harness.old_hook]
    /\ UNCHANGED nvars

(* lines 59-64: the payload is downcast to Execution; any other payload is *)
(* answered by a panic of the harness's own                                *)
MapErr ==
    /\ harness.pc = "restored"
    /\ harness' = [harness EXCEPT !.pc = "left",
                      !.ret = CASE harness.caught.kind = "ok" -> [kind |-> "Ok"]
                                [] harness.caught.kind = "execution" ->
                                      [kind |-> "Err",
                                       execution |-> harness.caught.execution]
                                [] OTHER -> [kind |-> "panic",
                                             payload |-> UnknownPayload]]
    /\ UNCHANGED nvars

(* lib.rs lines 263-267 and the runner: Ok passes the case, Err is mapped  *)
(* to TestCaseError::Fail, a panic of the closure is caught by the runner  *)
(* and counts as a failure too.  Of a failing scenario the runner keeps    *)
(* the scenario; the model keeps with it the interleavings loom went       *)
(* through before it stopped, which loom will go through again.            *)
TestClosureEnds ==
    /\ harness.pc = "left"
    /\ harness.phase \in { "test", "shrink" }
    /\ harness' = [harness EXCEPT
                      !.pc = "run",
                      !.scenario = Scenario(0, << >>, 0),
                      !.outcomes = << >>,
                      !.iter = 0,
                      !.caught = NoPayload,
                      !.ret = NoPayload,
                      !.cases = IF harness.phase = "test" /\ harness.ret.kind = "Ok"
                                THEN @ + 1 ELSE @,
                      !.shrinks = IF harness.phase = "shrink" THEN @ + 1 ELSE @,
                      !.failing = IF harness.ret.kind = "Ok" THEN @
                                  ELSE [kind |-> "failed",
                                        scenario |-> harness.scenario,
                                        outcomes |-> SubSeq(harness.outcomes, 1,
                                                            harness.iter),
                                        ret |-> harness.ret]]
    /\ UNCHANGED nvars

(* lib.rs line 268: every case has passed *)
VerifyReturnsOk ==
    /\ harness.pc = "run"
    /\ harness.failing = NoPayload
    /\ harness.cases = MaxCases
    /\ harness' = [harness EXCEPT !.pc = "returned", !.verify = [kind |-> "Ok"]]
    /\ UNCHANGED nvars

(* a verify that replays a scenario simpler than the failing one *)
VerifyReplaysSimpler ==
    /\ harness.pc = "run"
    /\ harness.failing # NoPayload
    /\ \E s \in Simpler(harness.failing.scenario), o \in Outcomes :
          harness' = [harness EXCEPT !.pc = "call", !.phase = "replay",
                                     !.scenario = s, !.outcomes = o]
    /\ UNCHANGED nvars

(* lib.rs lines 269-272: the runner has returned TestError::Fail with the  *)
(* failing scenario, on which check_scenario_with_loom is called again     *)
VerifyReplays ==
    /\ harness.pc = "run"
    /\ harness.failing # NoPayload
    /\ harness' = [harness EXCEPT !.pc = "call", !.phase = "replay",
                                  !.scenario = harness.failing.scenario,
                                  !.outcomes = harness.failing.outcomes]
    /\ UNCHANGED nvars

(* lib.rs line 271: unwrap_err on the result of the replay *)
VerifyReturns ==
    /\ harness.pc = "left"
    /\ harness.phase = "replay"
    /\ harness' = [harness EXCEPT !.pc = "returned",
                      !.verify = CASE harness.ret.kind = "Err" -> harness.ret
                                   [] harness.ret.kind = "Ok" ->
                                         [kind |-> "panic", payload |-> "unwrap_err"]
                                   [] OTHER -> harness.ret]
    /\ UNCHANGED nvars

(* verify_or_panic: lib.rs lines 286-289 *)
VerifyOrPanic ==
    /\ harness.pc = "returned"
    /\ harness' = [harness EXCEPT !.pc = "done",
                      !.verify_or_panic =
                          CASE harness.verify.kind = "Ok" -> [kind |-> "returned"]
                            [] harness.verify.kind = "Err" ->
                                  [kind |-> "panic",
                                   payload |-> "Non-linearizable execution"]
                            [] OTHER -> harness.verify]
    /\ UNCHANGED nvars

NextVerify ==
    \/ RunnerGenerates
    \/ RunnerShrinks
    \/ TakeHook
    \/ LoomClosureReturns
    \/ LoomClosurePanics
    \/ LoomSutPanics
    \/ SetOldHook
    \/ MapErr
    \/ TestClosureEnds
    \/ VerifyReturnsOk
    \/ VerifyReplays
    \/ VerifyReturns
    \/ VerifyOrPanic

SpecVerify == InitVerify /\ [][NextVerify]_vars

-----------------------------------------------------------------------------
(* C23: check_scenario_with_loom returns Err(e) exactly when check returns *)
(* false on the execution of some interleaving loom has explored, e being  *)
(* the execution of the first such interleaving; it returns Ok(()) exactly *)
(* when check returns true in every interleaving of the scenario.          *)
Explored == 1..harness.iter

FailingInterleavings == { k \in Explored : harness.outcomes[k] = "false" }

VerdictOfFirstFailing ==
    harness.pc = "left" =>
       /\ harness.ret.kind = "Err" <=> FailingInterleavings # {}
       /\ harness.ret.kind = "Err" =>
             /\ harness.ret.execution.scenario = harness.scenario
             /\ harness.ret.execution.interleaving \in FailingInterleavings
             /\ \A k \in FailingInterleavings : harness.ret.execution.interleaving <= k
       /\ harness.ret.kind = "Ok" <=>
             /\ harness.iter = Len(harness.outcomes)
             /\ \A k \in Explored : harness.outcomes[k] = "true"

(* Err was returned for the second interleaving, the first having passed   *)
(* and a later run of the scenario being due                               *)
ErrOfSecondInterleaving ==
    /\ harness.pc = "left"
    /\ harness.ret.kind = "Err"
    /\ harness.ret.execution.interleaving = 2

-----------------------------------------------------------------------------
(* C24: when a call of check_scenario_with_loom by a single caller returns *)
(* Ok, returns Err or panics with the unknown-payload message, the panic   *)
(* hook installed is again the one that was installed when the call began. *)
HookRestored ==
    harness.pc = "left" => harness.hook = harness.entry_hook

(* between take_hook and set_hook the empty hook is installed, and a call  *)
(* has ended by the panic of line 62 with the caller's own hook back       *)
HookRestoredOnPanic ==
    /\ harness.pc = "left"
    /\ harness.ret.kind = "panic"
    /\ harness.hook = "custom"

-----------------------------------------------------------------------------
(* C25: a panic of the user's exec with a payload p that is no Execution   *)
(* leaves check_scenario_with_loom, and verify, with the same payload p.   *)
UserPanicUnchanged ==
    /\ (harness.pc = "left" /\ harness.caught.kind = "payload") =>
          harness.ret = [kind |-> "panic", payload |-> harness.caught.payload]
    /\ (harness.pc = "returned" /\ harness.caught.kind = "payload") =>
          harness.verify = [kind |-> "panic", payload |-> harness.caught.payload]

-----------------------------------------------------------------------------
(* C26: every scenario verify generates has at most self.num_threads lists *)
(* in parallel_part and at most self.num_ops operations in init_part, in   *)
(* each list of parallel_part and in post_part.                            *)
ScenarioRespectsConfig ==
    LET s == harness.scenario
    IN  /\ Len(s.parallel_part) <= harness.self.num_threads
        /\ Len(s.init_part) <= harness.self.num_ops
        /\ \A t \in 1..Len(s.parallel_part) :
              Len(s.parallel_part[t]) <= harness.self.num_ops
        /\ Len(s.post_part) <= harness.self.num_ops

-----------------------------------------------------------------------------
(* C27 as stated: the re-run of a scenario that was reported failing       *)
(* always returns Err.                                                     *)
ReplayReturnsErr ==
    (harness.pc = "left" /\ harness.phase = "replay") => harness.ret.kind = "Err"

(* C27: the replay in verify repeats the run that was reported failing:    *)
(* it returns Err with the same Execution when that run returned Err, and  *)
(* panics as that run did when that run panicked; so unwrap_err never      *)
(* panics and an Execution returned by verify is one of the failing        *)
(* scenario on which check returns false.                                  *)
ReplayRepeatsFailure ==
    /\ (harness.pc = "left" /\ harness.phase = "replay") =>
          /\ harness.ret = harness.failing.ret
          /\ harness.ret.kind # "Ok"
    /\ harness.pc = "returned" =>
          /\ harness.verify # [kind |-> "panic", payload |-> "unwrap_err"]
          /\ harness.verify.kind = "Err" =>
                /\ harness.verify.execution.scenario = harness.failing.scenario
                /\ harness.failing.outcomes[harness.verify.execution.interleaving] = "false"

(* verify has returned the Execution of a scenario found by shrinking,     *)
(* after a further candidate of the shrinking has passed                   *)
ReplayAfterShrinking ==
    /\ harness.pc = "returned"
    /\ harness.verify.kind = "Err"
    /\ harness.shrinks = 1

-----------------------------------------------------------------------------
(* One run of the closure of check_scenario_with_loom (scenario.rs lines   *)
(* 46-52) for the objects of tests/: execute_scenario_with_loom with       *)
(* conc.exec as the thunk, then check on the recorded execution.  The      *)
(* interleavings are those of the workers' steps.  A Relaxed load by a     *)
(* worker may return any store to the location that is not older than what *)
(* the worker has already seen of it; spawn hands the worker what main has *)
(* seen, join hands main what the workers have seen; a read-modify-write   *)
(* takes the latest store.                                                 *)

TotalOps(s) ==
    Len(s.init_part)
      + Sum([ t \in 1..Len(s.parallel_part) |-> Len(s.parallel_part[t]) ], 1)
      + Len(s.post_part)

(* the scenario s with the operation f[k] in the place numbered k *)
Relabel(s, f) ==
    [init_part |-> [ k \in 1..Len(s.init_part) |-> f[s.init_part[k]] ],
     parallel_part |-> [ t \in 1..Len(s.parallel_part) |->
                           [ k \in 1..Len(s.parallel_part[t]) |->
                               f[s.parallel_part[t][k]] ] ],
     post_part |-> [ k \in 1..Len(s.post_part) |-> f[s.post_part[k]] ]]

(* any::<Scenario<Op>>() for an Op whose values are ops *)
GeneratedScenarios(ops) ==
    UNION { { Relabel(s, f) : f \in [1..TotalOps(s) -> ops] } :
              s \in ArbitraryWith(LincheckDefault) }

(* scenario.rs lines 72-78: conc = Conc::default(), recorder =             *)
(* record_init_part_with_capacity                                          *)
InitRun(Conc, ops, conc, view, local) ==
    /\ RecordInitPart
    /\ CheckerIdle
    /\ harness = NoHarness
    /\ \E s \in GeneratedScenarios(ops) :
          scn = [pc |-> "init", scenario |-> s, init_done |-> 0,
                 par_done |-> [ t \in 1..Len(s.parallel_part) |-> 0 ],
                 post_done |-> 0, spawned |-> 0, joined |-> 0,
                 Conc |-> Conc, conc |-> conc,
                 view |-> [ t \in 1..Len(s.parallel_part) |-> view ],
                 local |-> [ t \in 1..Len(s.parallel_part) |-> local ],
                 raced |-> FALSE]

(* the operation worker t is executing *)
CurrentOp(t) == threads[t].recorder.current_op

(* Conc::Seq *)
SeqOf(Conc) ==
    CASE Conc = "ConcurrentCounter" -> "SequentialCounter"
      [] Conc = "ConcurrentStack" -> "SequentialStack"
      [] Conc = "TwoSlotsParallel" -> "TwoSlotsSequential"

(* scenario.rs lines 47-48: the execution is handed to check *)
StartCheck ==
    /\ scn.pc = "done"
    /\ pc = "idle"
    /\ LET c == NewChecker(SeqOf(scn.Conc), returned[1])
       IN  /\ SeqT' = SeqOf(scn.Conc)
           /\ execution' = c.execution
           /\ hb' = c.hb
           /\ in_degree' = c.in_degree
           /\ minimal_invocations' = c.minimal_invocations
           /\ linearized' = c.linearized
           /\ seq_spec' = c.seq_spec
    /\ pc' = "check_init_part"
    /\ UNCHANGED << frames, retval, result, run, first, rvars >>

-----------------------------------------------------------------------------
(* ConcurrentCounter of tests/counter.rs: scn.conc is the latest value of  *)
(* x, scn.view[t] the oldest value worker t may still load.                *)

(* exec with no other thread running: the load returns the latest value    *)
(* and the compare_exchange succeeds                                       *)
ConcurrentCounterExec(x, op) == [state |-> x + 1, ret |-> OldValue(x)]

CounterLocal == [pc |-> "load", val |-> 0]

InitCounterRun == InitRun("ConcurrentCounter", { Increment }, 0, 0, CounterLocal)

(* counter.rs line 45 *)
CounterLoad ==
    /\ scn.Conc = "ConcurrentCounter"
    /\ \E t \in Workers :
          /\ threads[t].pc = "running"
          /\ scn.local[t].pc = "load"
          /\ \E v \in scn.view[t]..scn.conc :
                scn' = [scn EXCEPT !.local[t] = [pc |-> "cas", val |-> v],
                                   !.view[t] = v]
    /\ UNCHANGED << init_recorder, parallel_recorder, threads, post_recorders,
                    returned, thunks, cvars, harness >>

(* lines 46-54: the compare_exchange fails on a value other than val, and  *)
(* the loop goes round                                                     *)
CounterCompareExchangeFails ==
    /\ scn.Conc = "ConcurrentCounter"
    /\ \E t \in Workers :
          /\ threads[t].pc = "running"
          /\ scn.local[t].pc = "cas"
          /\ scn.conc # scn.local[t].val
          /\ \E v \in (scn.view[t]..scn.conc) \ { scn.local[t].val } :
                scn' = [scn EXCEPT !.local[t] = CounterLocal, !.view[t] = v,
                                   !.raced = TRUE]
    /\ UNCHANGED << init_recorder, parallel_recorder, threads, post_recorders,
                    returned, thunks, cvars, harness >>

(* an increment that stores val + 1 without comparing *)
CounterStoresWithoutCompare ==
    /\ scn.Conc = "ConcurrentCounter"
    /\ \E t \in Workers :
          /\ threads[t].pc = "running"
          /\ scn.local[t].pc = "cas"
          /\ ThunkReturns(t, OldValue(scn.local[t].val))
          /\ scn' = [scn EXCEPT !.local[t] = CounterLocal,
                                !.conc = scn.local[t].val + 1,
                                !.view[t] = scn.local[t].val + 1]
    /\ UNCHANGED << cvars, harness >>

(* lines 46-51: the compare_exchange succeeds and exec returns             *)
(* OldValue(val)                                                           *)
CounterCompareExchange ==
    /\ scn.Conc = "ConcurrentCounter"
    /\ \E t \in Workers :
          /\ threads[t].pc = "running"
          /\ scn.local[t].pc = "cas"
          /\ scn.conc = scn.local[t].val
          /\ ThunkReturns(t, OldValue(scn.local[t].val))
          /\ scn' = [scn EXCEPT !.local[t] = CounterLocal,
                                !.conc = scn.local[t].val + 1,
                                !.view[t] = scn.local[t].val + 1]
    /\ UNCHANGED << cvars, harness >>

-----------------------------------------------------------------------------
(* ConcurrentStack of tests/stack.rs: scn.conc is the Vec and the holder   *)
(* of the mutex (0: free).                                                 *)

(* a stack whose pop takes the last value and returns None *)
ConcurrentStackExecPopReturnsNone(stack, op) ==
    IF op.name = "Push"
    THEN [state |-> Append(stack, op.arg), ret |-> RetPush]
    ELSE IF stack = << >>
         THEN [state |-> stack, ret |-> RetPopNone]
         ELSE [state |-> Front(stack), ret |-> RetPopNone]

(* stack.rs lines 75-81, on the guarded Vec *)
ConcurrentStackExec(stack, op) ==
    IF op.name = "Push"
    THEN [state |-> Append(stack, op.arg), ret |-> RetPush]
    ELSE IF stack = << >>
         THEN [state |-> stack, ret |-> RetPopNone]
         ELSE [state |-> Front(stack), ret |-> RetPopSome(Last(stack))]

StackLocal == [pc |-> "lock"]

InitStackRun ==
    InitRun("ConcurrentStack", { Push(v) : v \in Values } \cup { Pop },
            [stack |-> << >>, locked |-> 0], 0, StackLocal)

(* stack.rs line 74: lock() returns once the mutex is free *)
StackLock ==
    /\ scn.Conc = "ConcurrentStack"
    /\ \E t \in Workers :
          /\ threads[t].pc = "running"
          /\ scn.local[t].pc = "lock"
          /\ scn.conc.locked = 0
          /\ scn' = [scn EXCEPT !.local[t].pc = "locked", !.conc.locked = t]
    /\ UNCHANGED << init_recorder, parallel_recorder, threads, post_recorders,
                    returned, thunks, cvars, harness >>

(* lines 75-82: the operation on the Vec; the guard is dropped on return *)
StackExecUnlock ==
    /\ scn.Conc = "ConcurrentStack"
    /\ \E t \in Workers :
          /\ threads[t].pc = "running"
          /\ scn.local[t].pc = "locked"
          /\ LET r == ConcurrentStackExec(scn.conc.stack, CurrentOp(t))
             IN  /\ ThunkReturns(t, r.ret)
                 /\ scn' = [scn EXCEPT !.local[t] = StackLocal,
                                       !.conc = [stack |-> r.state, locked |-> 0]]
    /\ UNCHANGED << cvars, harness >>

-----------------------------------------------------------------------------
(* TwoSlotsParallel of tests/wmm.rs: scn.conc holds for each flag whether  *)
(* true has been stored, scn.view[t] whether worker t has seen that store. *)

TwoSlotsLocal == [pc |-> "exec"]

InitTwoSlotsRun ==
    InitRun("TwoSlotsParallel", { WriteX, WriteY, ReadX, ReadY },
            [x |-> FALSE, y |-> FALSE], [x |-> FALSE, y |-> FALSE], TwoSlotsLocal)

(* the flag an operation works on *)
SlotOf(op) == IF op.name \in { "WriteX", "ReadX" } THEN "x" ELSE "y"

(* exec with no other thread running: a load returns the latest store *)
TwoSlotsParallelExec(flags, op) ==
    IF op.name \in { "WriteX", "WriteY" }
    THEN [state |-> [flags EXCEPT ![SlotOf(op)] = TRUE], ret |-> RetWrite]
    ELSE [state |-> flags, ret |-> RetRead(flags[SlotOf(op)])]

(* the values a Relaxed load of worker t may return *)
Readable(t, slot) ==
    IF scn.view[t][slot] THEN { TRUE }
    ELSE IF scn.conc[slot] THEN { TRUE, FALSE }
    ELSE { FALSE }

(* a store that never reaches the flag *)
TwoSlotsStoreLost ==
    /\ scn.Conc = "TwoSlotsParallel"
    /\ \E t \in Workers :
          /\ threads[t].pc = "running"
          /\ CurrentOp(t).name \in { "WriteX", "WriteY" }
          /\ ThunkReturns(t, RetWrite)
          /\ scn' = scn
    /\ UNCHANGED << cvars, harness >>

(* wmm.rs lines 53-60: store(true, Relaxed) *)
TwoSlotsStore ==
    /\ scn.Conc = "TwoSlotsParallel"
    /\ \E t \in Workers :
          /\ threads[t].pc = "running"
          /\ CurrentOp(t).name \in { "WriteX", "WriteY" }
          /\ ThunkReturns(t, RetWrite)
          /\ scn' = [scn EXCEPT !.conc[SlotOf(CurrentOp(t))] = TRUE,
                                !.view[t][SlotOf(CurrentOp(t))] = TRUE]
    /\ UNCHANGED << cvars, harness >>

(* wmm.rs lines 61-62: load(Relaxed) *)
TwoSlotsLoad ==
    /\ scn.Conc = "TwoSlotsParallel"
    /\ \E t \in Workers :
          /\ threads[t].pc = "running"
          /\ CurrentOp(t).name \in { "ReadX", "ReadY" }
          /\ \E b \in Readable(t, SlotOf(CurrentOp(t))) :
                /\ ThunkReturns(t, RetRead(b))
                /\ scn' = [scn EXCEPT
                              !.view[t][SlotOf(CurrentOp(t))] = b,
                              !.raced = @ \/ b # scn.conc[SlotOf(CurrentOp(t))]]
    /\ UNCHANGED << cvars, harness >>

-----------------------------------------------------------------------------
(* conc.exec of the object under test, no other thread running *)
ConcExec(Conc, conc, op) ==
    CASE Conc = "ConcurrentCounter" -> ConcurrentCounterExec(conc, op)
      [] Conc = "ConcurrentStack" ->
            LET r == ConcurrentStackExec(conc.stack, op)
            IN  [state |-> [conc EXCEPT !.stack = r.state], ret |-> r.ret]
      [] Conc = "TwoSlotsParallel" -> TwoSlotsParallelExec(conc, op)

(* spawn hands every worker what main has seen; for the stack the mutex    *)
(* does                                                                    *)
ViewOf(Conc, conc) == IF Conc = "ConcurrentStack" THEN 0 ELSE conc

(* scenario.rs lines 81-83 with conc.exec as the thunk *)
RunInitRecord ==
    /\ scn.pc = "init"
    /\ scn.init_done < Len(scn.scenario.init_part)
    /\ LET op == scn.scenario.init_part[scn.init_done + 1]
           r == ConcExec(scn.Conc, scn.conc, op)
       IN  /\ InitRecord(op, r.ret)
           /\ scn' = [scn EXCEPT !.init_done = @ + 1, !.conc = r.state,
                                 !.view = [ t \in DOMAIN @ |->
                                              ViewOf(scn.Conc, r.state) ]]
    /\ UNCHANGED << cvars, harness >>

(* scenario.rs lines 114-116 with conc.exec as the thunk *)
RunPostRecord ==
    /\ scn.pc = "post"
    /\ scn.post_done < Len(scn.scenario.post_part)
    /\ LET op == scn.scenario.post_part[scn.post_done + 1]
           r == ConcExec(scn.Conc, scn.conc, op)
       IN  /\ PostRecord(1, op, r.ret)
           /\ scn' = [scn EXCEPT !.post_done = @ + 1, !.conc = r.state]
    /\ UNCHANGED << cvars, harness >>

InitRunAny == InitCounterRun \/ InitStackRun \/ InitTwoSlotsRun

NextRun ==
    \/ RunInitRecord
    \/ ScnRecordParallelPart
    \/ ScnSpawn
    \/ ScnRecordThreadLoad
    \/ ScnRecordThreadFetchAdd
    \/ ScnRecordCall
    \/ ScnThunkStarts
    \/ CounterLoad
    \/ CounterCompareExchangeFails
    \/ CounterCompareExchange
    \/ StackLock
    \/ StackExecUnlock
    \/ TwoSlotsStore
    \/ TwoSlotsLoad
    \/ ScnRecordReturn
    \/ ScnDrop
    \/ ScnJoin
    \/ ScnRecordPostPart
    \/ RunPostRecord
    \/ ScnFinish
    \/ StartCheck
    \/ CheckInitPart
    \/ CheckPostPart
    \/ EnterAny
    \/ TryCandidate
    \/ Backtrack
    \/ AnyExhausted
    \/ ReturnToClosure
    \/ ReturnFromCheck

SpecRun == InitRunAny /\ [][NextRun]_vars

-----------------------------------------------------------------------------
(* C28: for the counter whose exec loads x and retries compare_exchange    *)
(* until it succeeds, returning the value it replaced, check returns true  *)
(* on the execution recorded in every interleaving of every scenario: no   *)
(* run of the closure panics, so verify_or_panic does not panic.           *)
CounterRunsLinearizable ==
    (scn.pc = "done" /\ scn.Conc = "ConcurrentCounter" /\ pc = "done") =>
        result = "true"

(* two workers have incremented, one after a compare_exchange that failed, *)
(* and the execution has been judged                                       *)
CounterRacedAndJudged ==
    /\ scn.pc = "done"
    /\ scn.Conc = "ConcurrentCounter"
    /\ pc = "done"
    /\ scn.raced
    /\ Len(execution.parallel_part) = 2

-----------------------------------------------------------------------------
(* C29: for the stack whose exec runs Push and Pop under one mutex, check  *)
(* returns true on the execution recorded in every interleaving of every   *)
(* scenario, so verify returns Ok.                                         *)
StackRunsLinearizable ==
    (scn.pc = "done" /\ scn.Conc = "ConcurrentStack" /\ pc = "done") =>
        result = "true"

(* a Push and a Pop of two workers have overlapped, the Pop has returned   *)
(* the value pushed, and the execution has been judged                     *)
StackOverlappedAndJudged ==
    /\ scn.pc = "done"
    /\ scn.Conc = "ConcurrentStack"
    /\ pc = "done"
    /\ \E a, b \in ParIds :
          /\ Overlap(a, b)
          /\ execution.parallel_part[a].op.name = "Push"
          /\ execution.parallel_part[b].ret = RetPopSome(execution.parallel_part[a].op.arg)

-----------------------------------------------------------------------------
(* C30: for the two flags with Relaxed stores and loads there are a        *)
(* scenario within the default bounds and an interleaving whose recorded   *)
(* execution check rejects: a ReadY returns false after a WriteY has       *)
(* returned.  Every such execution is rejected, and an execution of the    *)
(* two flags is rejected only when some load has returned a value older    *)
(* than the latest store.                                                  *)
TwoSlotsRejectedForStaleLoad ==
    (scn.pc = "done" /\ scn.Conc = "TwoSlotsParallel" /\ pc = "done") =>
        /\ StaleReadY => result = "false"
        /\ result = "false" => scn.raced

(* the non-linearizable execution exists: a worker's WriteY has returned   *)
(* before another worker's ReadY was called, the ReadY has returned false  *)
(* and check has returned false                                            *)
StaleReadYRecordedAndRejected ==
    /\ scn.pc = "done"
    /\ scn.Conc = "TwoSlotsParallel"
    /\ scn.scenario \in GeneratedScenarios({ WriteX, WriteY, ReadX, ReadY })
    /\ pc = "done"
    /\ StaleReadY
    /\ result = "false"

-----------------------------------------------------------------------------
(* C32: at every entry to check_parallel_part and after every undo, for    *)
(* every invocation i, in_degree[i] is the number of hb predecessors of i  *)
(* that are not in `linearized`, and minimal_invocations is the set of the *)
(* invocations not in `linearized` whose in_degree is 0.                   *)
UnplacedPredecessors(i) ==
    { a \in ParIds : i \in Range(hb[a]) /\ a \notin Range(linearized) }

BookkeepingCountsUnplaced ==
    pc \in {"check_parallel_part", "any"} =>
        /\ \A i \in ParIds : in_degree[i] = Cardinality(UnplacedPredecessors(i))
        /\ minimal_invocations =
              { i \in ParIds \ Range(linearized) : in_degree[i] = 0 }

(* undo has just put back an invocation that has a successor, below an     *)
(* invocation that stays placed                                            *)
UndoneBelowPlaced ==
    /\ pc = "any"
    /\ Top.cur # 0
    /\ hb[Top.cur] # << >>
    /\ linearized # << >>

-----------------------------------------------------------------------------
(* C33: undo is the exact inverse of call: after call(c), a recursive      *)
(* search that failed and was backtracked (or none), and undo(c), the      *)
(* vectors in_degree, minimal_invocations and linearized are what they     *)
(* were before call(c).                                                    *)
UndoRestoresCall ==
    (pc = "any" /\ Top.cur # 0) => Bookkeeping = Top.before

(* the candidate undone has a successor, and its own return matched, so a  *)
(* search below it has failed and was backtracked before the undo          *)
UndoneAfterFailedSearch ==
    /\ pc = "any"
    /\ Top.cur # 0
    /\ hb[Top.cur] # << >>
    /\ SeqExec(SeqT, seq_spec, execution.parallel_part[Top.cur].op).ret
          = execution.parallel_part[Top.cur].ret

-----------------------------------------------------------------------------
(* C34: each time the op of a candidate is applied, and each time the post *)
(* replay starts, the sequential state is that of a fresh spec after       *)
(* init_part and then the ops of `linearized` (without the candidate);     *)
(* after a failed branch the state has been rebuilt and carries no effect  *)
(* of the failed candidate, of what was placed below it or of post ops.    *)
ReplayedState(order) ==
    ExecAll(SeqT, SeqDefault(SeqT),
            [ i \in 1..(Len(execution.init_part) + Len(order)) |->
                IF i <= Len(execution.init_part)
                THEN execution.init_part[i].op
                ELSE execution.parallel_part[order[i - Len(execution.init_part)]].op ],
            1)

StateIsReplayOfPlaced ==
    pc \in {"check_parallel_part", "any"} => seq_spec = ReplayedState(linearized)

(* a branch has failed in the post replay: the candidate's return matched, *)
(* nothing else was to place, post_part is not empty, and the candidate's  *)
(* op changes the state it was applied to                                  *)
RebuiltAfterFailedPostReplay ==
    /\ pc = "any"
    /\ Top.cur # 0
    /\ Len(execution.parallel_part) = 1
    /\ execution.post_part # << >>
    /\ LET r == SeqExec(SeqT, seq_spec, execution.parallel_part[Top.cur].op)
       IN  /\ r.ret = execution.parallel_part[Top.cur].ret
           /\ r.state # seq_spec

-----------------------------------------------------------------------------
(* C35: hb has an edge a -> b exactly when a returned before b was called, *)
(* the initial in_degree[b] is the number of such a, and on every          *)
(* execution the recorder produces the graph is irreflexive, transitive    *)
(* and acyclic, with no edge in either direction between two invocations   *)
(* whose timestamp intervals intersect.                                    *)
Edge(a, b) == b \in Range(hb[a])

(* the intervals [call, return] of a and b have a timestamp in common *)
Intersect(a, b) ==
    /\ execution.parallel_part[a].call_timestamp
          <= execution.parallel_part[b].return_timestamp
    /\ execution.parallel_part[b].call_timestamp
          <= execution.parallel_part[a].return_timestamp

HbIsStrictRealTimeOrder ==
    /\ DOMAIN hb = ParIds
    /\ \A a, b \in ParIds : Edge(a, b) <=> Precedes(a, b)
    /\ \A a \in ParIds : Len(hb[a]) = Cardinality(Range(hb[a]))
    /\ pc = "check_init_part" =>
          \A b \in ParIds :
             in_degree[b] = Cardinality({ a \in ParIds : Precedes(a, b) })
    /\ \A a \in ParIds : ~Edge(a, a)
    /\ \A a, b, c \in ParIds : (Edge(a, b) /\ Edge(b, c)) => Edge(a, c)
    /\ \E order \in Orders(Len(execution.parallel_part)) :
          \A i, j \in ParIds : Edge(order[i], order[j]) => i < j
    /\ \A a, b \in ParIds :
          (a # b /\ Intersect(a, b)) => (~Edge(a, b) /\ ~Edge(b, a))

(* check has built hb for the recorded execution of two workers, one of    *)
(* which returned from its operation before the other called its own       *)
HbBuiltForRecordedRun ==
    /\ scn.pc = "done"
    /\ pc = "check_init_part"
    /\ Len(scn.scenario.parallel_part) = 2
    /\ \E a, b \in ParIds : Edge(a, b)

-----------------------------------------------------------------------------
(* C36: the post replay starts only when every parallel invocation has     *)
(* been placed: whenever minimal_invocations is empty at the entry of      *)
(* check_parallel_part, `linearized` has the length of parallel_part (and  *)
(* holds every id), so no parallel invocation is unchecked when check      *)
(* answers true.                                                           *)
PostReplayOnlyWhenAllPlaced ==
    /\ (pc = "check_parallel_part" /\ minimal_invocations = {}) =>
          /\ Len(linearized) = Len(execution.parallel_part)
          /\ Range(linearized) = ParIds
    /\ (pc = "done" /\ result = "true") => Range(linearized) = ParIds

(* the post replay is about to start below two search nodes: the second    *)
(* invocation was released by placing the first                            *)
PostReplayAfterRelease ==
    /\ pc = "check_parallel_part"
    /\ minimal_invocations = {}
    /\ Len(frames) = 2
    /\ Precedes(linearized[1], linearized[2])

-----------------------------------------------------------------------------
(* C37: when hb is a total order on parallel_part (no two invocations      *)
(* overlap) the frontier holds at most one invocation at every step, so    *)
(* the parallel phase tries the single sequence in timestamp order and no  *)
(* node has an alternative to backtrack to.                                *)
HbTotal == \A a, b \in ParIds : a # b => (Precedes(a, b) \/ Precedes(b, a))

TotalOrderForcesSequence ==
    HbTotal =>
        /\ Cardinality(minimal_invocations) <= 1
        /\ \A k \in 1..Len(frames) :
              Cardinality(frames[k].iter \cup frames[k].tried) = 1
        /\ \A i, j \in 1..Len(linearized) :
              i < j => Precedes(linearized[i], linearized[j])
        /\ (pc = "any" /\ Top.cur # 0) => Top.iter = {}

(* two invocations in sequence: the root node has undone its only          *)
(* candidate after the search below it failed, and has nothing left to try *)
ForcedSequenceFailed ==
    /\ HbTotal
    /\ Len(execution.parallel_part) = 2
    /\ pc = "any"
    /\ Len(frames) = 1
    /\ Top.cur # 0
    /\ SeqExec(SeqT, seq_spec, execution.parallel_part[Top.cur].op).ret
          = execution.parallel_part[Top.cur].ret

-----------------------------------------------------------------------------
(* C38: check terminates on every well-formed execution: the depth of the  *)
(* recursion of check_parallel_part never exceeds the length of            *)
(* parallel_part, no id occurs twice in `linearized`, and every search     *)
(* path ends in the post replay or in a node whose candidates are          *)
(* exhausted.                                                              *)
SearchBounded ==
    /\ Len(frames) <= Len(execution.parallel_part)
    /\ Len(linearized) <= Len(execution.parallel_part)
    /\ pc \in {"any", "undo"} => Len(linearized) <= Len(frames)
    /\ \A i, j \in 1..Len(linearized) : linearized[i] = linearized[j] => i = j

(* a step that makes check_parallel_part return *)
PathEnds == pc \in {"check_parallel_part", "any"} /\ pc' = "return"

PathEndsInReplayOrExhaustion ==
    PathEnds =>
        \/ pc = "check_parallel_part" /\ minimal_invocations = {}
        \/ pc = "any" /\ Top.iter = {} /\ Top.tried # {} /\ retval' = FALSE

CheckTerminates ==
    /\ []SearchBounded
    /\ [][PathEndsInReplayOrExhaustion]_vars
    /\ <>(pc = "done")

(* check has answered false after a search of depth 2 in which the root    *)
(* tried both of two overlapping invocations                               *)
SearchExhaustedAndAnswered ==
    /\ pc = "done"
    /\ result = "false"
    /\ Len(execution.parallel_part) = 2
    /\ Overlap(1, 2)
    /\ Reproduces(execution.init_part)

-----------------------------------------------------------------------------
(* ParallelHistory::get_thread_parts (execution.rs lines 40-51): the        *)
(* invocations of h grouped by thread_id, in storage order; the vector is  *)
(* as long as the largest thread_id met requires (model index = id + 1)    *)
GetThreadParts(h) ==
    LET ids == { h[k].thread_id : k \in 1..Len(h) }
        len == IF ids = {} THEN 0
               ELSE 1 + CHOOSE m \in ids : \A n \in ids : n <= m
    IN  [ i \in 1..len |-> SelectSeq(h, LAMBDA inv : inv.thread_id = i - 1) ]

(* C39: in the Execution returned by execute_scenario_with_loom, under     *)
(* every interleaving, the invocations that carry thread_id i are exactly  *)
(* the ops of the scenario's i-th parallel list, so column THREAD i of the *)
(* printed table shows the i-th thread of the scenario.                    *)
ThreadColumnsFollowScenario ==
    scn.pc = "done" =>
        LET parts == GetThreadParts(returned[1].parallel_part)
            s == scn.scenario
        IN  /\ Len(parts) <= Len(s.parallel_part)
            /\ \A i \in 1..Len(s.parallel_part) :
                  s.parallel_part[i] =
                     IF i <= Len(parts) THEN OpsOf(parts[i]) ELSE << >>

-----------------------------------------------------------------------------
(* Two test threads of one process call check_scenario_with_loom at the    *)
(* same time (cargo test runs tests in parallel unless --test-threads=1,   *)
(* lib.rs lines 180-185).  The panic hook is one slot of the process;      *)
(* take_hook and set_hook are each atomic, the sequence of lines 41-42 is  *)
(* not.  take_hook leaves the default hook in the slot.                    *)
TestThreads == { 1, 2 }

InitConcurrentCalls ==
    /\ CheckerIdle
    /\ RecorderIdle
    /\ \E h \in { "default", "custom" } :
          harness = [pc |-> "concurrent", hook |-> h, entry_hook |-> h,
                     callers |-> [ t \in TestThreads |->
                                     [pc |-> "call", old_hook |-> "default",
                                      caught |-> NoPayload, ret |-> NoPayload] ]]

CallerPc(t) == harness.callers[t].pc

(* scenario.rs line 41: let old_hook = panic::take_hook() *)
ConcurrentTakeHook ==
    /\ harness.pc = "concurrent"
    /\ \E t \in TestThreads :
          /\ CallerPc(t) = "call"
          /\ harness' = [harness EXCEPT !.hook = "default",
                                        !.callers[t].old_hook = harness.hook,
                                        !.callers[t].pc = "taken"]
    /\ UNCHANGED nvars

(* line 42: panic::set_hook(Box::new(|_| {})) *)
ConcurrentSetSilentHook ==
    /\ harness.pc = "concurrent"
    /\ \E t \in TestThreads :
          /\ CallerPc(t) = "taken"
          /\ harness' = [harness EXCEPT !.hook = "silent",
                                        !.callers[t].pc = "model"]
    /\ UNCHANGED nvars

(* lines 44-56: catch_unwind gives Ok, or the payload of the panic that    *)
(* ended loom::model: an Execution or something else                       *)
ConcurrentCatchUnwind ==
    /\ harness.pc = "concurrent"
    /\ \E t \in TestThreads, kind \in { "ok", "execution", "unknown" } :
          /\ CallerPc(t) = "model"
          /\ harness' = [harness EXCEPT !.callers[t].caught = [kind |-> kind],
                                        !.callers[t].pc = "caught"]
    /\ UNCHANGED nvars

(* line 58: panic::set_hook(old_hook) *)
ConcurrentSetOldHook ==
    /\ harness.pc = "concurrent"
    /\ \E t \in TestThreads :
          /\ CallerPc(t) = "caught"
          /\ harness' = [harness EXCEPT !.hook = harness.callers[t].old_hook,
                                        !.callers[t].pc = "restored"]
    /\ UNCHANGED nvars

(* lines 59-64: Ok, Err(execution), or the panic of line 62 *)
ConcurrentMapErr ==
    /\ harness.pc = "concurrent"
    /\ \E t \in TestThreads :
          /\ CallerPc(t) = "restored"
          /\ harness' = [harness EXCEPT
                !.callers[t].pc = "left",
                !.callers[t].ret =
                    CASE harness.callers[t].caught.kind = "ok" -> [kind |-> "Ok"]
                      [] harness.callers[t].caught.kind = "execution" -> [kind |-> "Err"]
                      [] OTHER -> [kind |-> "panic", payload |-> UnknownPayload]]
    /\ UNCHANGED nvars

NextConcurrentCalls ==
    \/ ConcurrentTakeHook
    \/ ConcurrentSetSilentHook
    \/ ConcurrentCatchUnwind
    \/ ConcurrentSetOldHook
    \/ ConcurrentMapErr

SpecConcurrentCalls == InitConcurrentCalls /\ [][NextConcurrentCalls]_vars

(* C40: when two threads run check_scenario_with_loom concurrently, after  *)
(* both calls have returned the process panic hook is the hook that was    *)
(* installed before either call started; the silent hook of one call is    *)
(* never left installed.                                                   *)
HookRestoredAfterConcurrentCalls ==
    (\A t \in TestThreads : CallerPc(t) = "left" /\ harness.callers[t].ret.kind # "panic")
        => (harness.hook = harness.entry_hook /\ harness.hook # "silent")

-----------------------------------------------------------------------------
(* fmt.rs: the parallel part of an execution as a table of cell spans.     *)

(* content None of a gap span *)
NoContent == [kind |-> "None"]

(* Some(format!("{}", inv)): the text "{op:?} : {ret:?}" (fmt.rs line 55), *)
(* kept as the two values it is written from                               *)
Content(inv) == [kind |-> "Some", op |-> inv.op, ret |-> inv.ret]

(* CellsSpan::new (lines 146-159); asserted records assert!(len > 0) *)
CellsSpanNew(len, content) ==
    [len_in_cells |-> len, content |-> content, asserted |-> len > 0]

(* lines 90-96: the largest return_timestamp among the last invocations of *)
(* the thread parts, 0 when there is none                                  *)
MaxReturnTimestamp(thread_parts) ==
    LET lasts == { Last(thread_parts[c]).return_timestamp :
                     c \in { d \in DOMAIN thread_parts : thread_parts[d] # << >> } }
    IN  IF lasts = {} THEN 0 ELSE CHOOSE m \in lasts : \A n \in lasts : n <= m

(* lines 103-128: the spans of one column from the k-th invocation of the  *)
(* thread part on, prev being prev_inv_return_timestamp                    *)
RECURSIVE ColumnSpans(_, _, _, _)
ColumnSpans(thread_part, k, prev, max) ==
    IF k > Len(thread_part)
    THEN IF prev < max THEN << CellsSpanNew(max - prev, NoContent) >> ELSE << >>
    ELSE LET inv == thread_part[k]
             gap == IF inv.call_timestamp > prev + 1
                    THEN << CellsSpanNew(inv.call_timestamp - prev - 1, NoContent) >>
                    ELSE << >>
         IN  gap \o << CellsSpanNew(inv.return_timestamp - inv.call_timestamp + 1,
                                    Content(inv)) >>
                 \o ColumnSpans(thread_part, k + 1, inv.return_timestamp, max)

(* Display for ParallelHistory (lines 83-144): one column per thread part; *)
(* the header is the text "THREAD {thread_id}", kept as the id             *)
ParallelTable(h) ==
    LET thread_parts == GetThreadParts(h)
        max == MaxReturnTimestamp(thread_parts)
    IN  [cell_height |-> 2,
         columns |-> [ c \in 1..Len(thread_parts) |->
                         [header |-> c - 1,
                          spans |-> ColumnSpans(thread_parts[c], 1, -1, max)] ]]

(* lib.rs lines 286-289: the execution a run has returned is formatted *)
ScnDisplay ==
    /\ scn.pc = "done"
    /\ scn' = [ f \in DOMAIN scn \cup { "table" } |->
                  CASE f = "pc" -> "displayed"
                    [] f = "table" -> ParallelTable(returned[1].parallel_part)
                    [] OTHER -> scn[f] ]
    /\ UNCHANGED << init_recorder, parallel_recorder, threads, post_recorders,
                    returned, thunks, cvars, harness >>

NextDisplay == NextScenario \/ ScnDisplay

(* a scenario is executed and the recorded execution is printed *)
SpecDisplay == InitScenario /\ [][NextDisplay]_vars

(* the cells of spans before its k-th span *)
RECURSIVE CellsBefore(_, _)
CellsBefore(spans, k) ==
    IF k <= 1 THEN 0 ELSE spans[k - 1].len_in_cells + CellsBefore(spans, k - 1)

(* the rows the k-th span of a column covers, rows counted from 0 *)
RowsOfSpan(spans, k) ==
    CellsBefore(spans, k)..(CellsBefore(spans, k) + spans[k].len_in_cells - 1)

(* the positions of the spans of a column that hold an invocation *)
Filled(spans) == { k \in 1..Len(spans) : spans[k].content # NoContent }

(* the position of the j-th span that holds an invocation *)
NthFilled(spans, j) ==
    CHOOSE k \in Filled(spans) : Cardinality({ i \in Filled(spans) : i <= k }) = j

(* the rows in which the table shows the j-th invocation of column c *)
RowsShown(table, c, j) ==
    RowsOfSpan(table.columns[c].spans, NthFilled(table.columns[c].spans, j))

Interval(inv) == inv.call_timestamp..inv.return_timestamp

(* the table shows every invocation of h in the rows of its timestamps *)
TableFollowsTimestamps(h, table) ==
    LET parts == GetThreadParts(h)
        rows == 1 + CHOOSE m \in { h[k].return_timestamp : k \in 1..Len(h) } :
                       \A k \in 1..Len(h) : h[k].return_timestamp <= m
    IN  /\ Len(table.columns) = Len(parts)
        /\ \A c \in 1..Len(parts) :
              LET spans == table.columns[c].spans
              IN  /\ \A k \in 1..Len(spans) : spans[k].asserted
                  /\ Cardinality(Filled(spans)) = Len(parts[c])
                  /\ \A j \in 1..Len(parts[c]) :
                        /\ spans[NthFilled(spans, j)].content = Content(parts[c][j])
                        /\ RowsShown(table, c, j) = Interval(parts[c][j])
                  /\ CellsBefore(spans, Len(spans) + 1) = rows
        /\ \A c, d \in 1..Len(parts) :
              \A i \in 1..Len(parts[c]), j \in 1..Len(parts[d]) :
                 c # d =>
                    ((RowsShown(table, c, i) \cap RowsShown(table, d, j) # {})
                        <=> (Interval(parts[c][i]) \cap Interval(parts[d][j]) # {}))

(* C31: in the rendered parallel table, measured in cells, each invocation *)
(* occupies in its thread's column exactly the rows call_ts..return_ts,    *)
(* gap spans fill the remaining rows, every column has the total length    *)
(* max return_ts + 1, two invocations of different threads share a row     *)
(* exactly when their timestamp intervals intersect, and the assertion     *)
(* len_in_cells > 0 of CellsSpan::new never fails.                         *)
TableRowsAreTimestamps ==
    (scn.pc = "displayed" /\ returned[1].parallel_part # << >>) =>
        TableFollowsTimestamps(returned[1].parallel_part, scn.table)

(* no two workers of the run were given the same thread_id *)
ThreadIdsOfRunDistinct ==
    \A t, u \in Workers :
        t # u => threads[t].recorder.thread_id # threads[u].recorder.thread_id

(* the table of a run whose workers have distinct thread ids *)
TableRowsAreTimestampsWhenIdsDistinct ==
    ThreadIdsOfRunDistinct => TableRowsAreTimestamps

====
